---------------------------- MODULE Spec2Model ----------------------------
(***************************************************************************)
(* A model of the Focus Time Tracker background service worker             *)
(* (src/background.js): the BlockingManager, which keeps the browser's     *)
(* dynamic declarativeNetRequest rules in line with focus mode, the        *)
(* blocked list and the temporary overrides, and the FocusTimeTracker      *)
(* session ledger, which persists elapsed time per domain.                 *)
(*                                                                         *)
(* JavaScript runs one turn at a time; a handler yields at every await on  *)
(* a browser API.  A browser call is modelled by two steps: its effect on  *)
(* the browser's state (the rule table, the storage area), which happens   *)
(* at some moment after the call is issued, and the resumption of the      *)
(* handler, which happens at some later turn.  Everything a handler does   *)
(* between two awaits is one step.  In saveTimeEntry the handler changes   *)
(* nothing in memory when it resumes from a storage call, so there the     *)
(* effect and the resumption are one step.  Strings are sequences of       *)
(* one-character strings, so that the domain clean-up and the URL filters  *)
(* are computed character by character as the code computes them.          *)
(***************************************************************************)
EXTENDS Integers, Sequences, FiniteSets, TLC

(***************************************************************************)
(* Bounds of the model.                                                    *)
(***************************************************************************)
\* handlers that may be in flight (between awaits) at the same time
MaxProcs == 2
\* operations (commands, restarts) started in one behaviour of sequential use
MaxOps == 3
\* mutations started in one behaviour of the mutations that race
MaxRacing == 2
\* clock ticks in one behaviour
MaxTicks == 2
\* FocusTimeTracker handlers in flight at once
MaxTrackerProcs == 2
\* events (tab, window, activity, clock set back, clock tick) in one behaviour
\* of the tracker with overlapping handlers
MaxTrackerOps == 4
\* such events in one behaviour of the tracker's sequential use
MaxSeqEvents == 5
\* clock ticks in one behaviour of the EnhancedActivityManager
MaxManagerTicks == 3
\* events the EnhancedActivityManager handles in one behaviour
MaxManagerOps == 4
\* calls of saveTimeEntry in one behaviour of the calls taken alone
MaxSaves == 3
\* clock ticks in one behaviour of the tracker with storage failures
MaxFaultTicks == 3
\* navigations, reloads and tab removals in one behaviour of the navigation
MaxNavEvents == 3
\* tab and window events in one behaviour of the handlers that overlap
MaxOverlapEvents == 1
\* clock ticks of 65 s in one such behaviour
MaxOverlapTicks == 1
\* events of the tracker and of the EnhancedActivityManager together in one
\* behaviour of the pauses
MaxPauseEvents == 3
\* clock ticks of five minutes in one such behaviour
MaxPauseTicks == 1

(***************************************************************************)
(* Program constants.                                                      *)
(***************************************************************************)
\* setTemporaryOverride(domain, duration = 300000)
DefaultOverrideMs == 300000
\* null, for a time stamp that is not set
Null == -1
\* maxStateAge of loadCurrentState: one hour
MaxStateAgeMs == 3600000

\* redirect: { extensionPath: "/blocked.html" }
BlockedPage == <<"/", "b", "l", "o", "c", "k", "e", "d", ".", "h", "t", "m", "l">>

(***************************************************************************)
(* Strings.                                                                *)
(***************************************************************************)
HttpPrefix == <<"h", "t", "t", "p", ":", "/", "/">>
HttpsPrefix == <<"h", "t", "t", "p", "s", ":", "/", "/">>
WwwPrefix == <<"w", "w", "w", ".">>

StartsWith(s, p) == Len(s) >= Len(p) /\ SubSeq(s, 1, Len(p)) = p

DropPrefix(s, p) == IF StartsWith(s, p) THEN SubSeq(s, Len(p) + 1, Len(s)) ELSE s

\* s.split('/')[0]: the text before the first '/'
BeforeSlash(s) ==
  LET slashes == {i \in 1..Len(s) : s[i] = "/"}
  IN IF slashes = {} THEN s
     ELSE SubSeq(s, 1, (CHOOSE i \in slashes : \A j \in slashes : i <= j) - 1)

\* domain.replace(/^https?:\/\//, '').replace(/^www\./, '').split('/')[0]
CleanDomain(raw) ==
  BeforeSlash(DropPrefix(DropPrefix(DropPrefix(raw, HttpsPrefix), HttpPrefix), WwwPrefix))

\* The raw domain strings the commands are called with.
RawDomains ==
  { <<"x", ".", "i", "o">>,
    <<"h", "t", "t", "p", "s", ":", "/", "/", "w", "w", "w", ".", "x", ".", "i", "o", "/", "p">>,
    <<"*">> }

CleanDomains == {CleanDomain(raw) : raw \in RawDomains}

\* urlFilter: `*://*.${domain}/*`
SubdomainFilter(domain) == <<"*", ":", "/", "/", "*", ".">> \o domain \o <<"/", "*">>

\* urlFilter: `*://${domain}/*`
BareFilter(domain) == <<"*", ":", "/", "/">> \o domain \o <<"/", "*">>


(***************************************************************************)
(* State.                                                                  *)
(***************************************************************************)
VARIABLES
  \* BlockingManager fields (constructor, src/background.js 595-604)
  focusMode, blockedSites, temporaryOverrides, focusStartTime, blockedAttempts,
  \* chrome.storage.local: the keys focusMode, blockedSites, focusStartTime, blockedAttempts
  stored,
  \* the browser's dynamic declarativeNetRequest rules
  dynRules,
  \* BlockingManager handlers in flight: where each one waits and its local variables
  bprocs,
  \* pending setTimeout callbacks of setTemporaryOverride, in creation order
  timers,
  \* Date.now(), and the monotonic time that the timers run on
  clock, mono,
  \* history: the handler that finished in the last step, the latest grant's
  \* expiry per domain, the rules found installed at the last restart, the
  \* browser calls that were rejected, and the number of operations started
  lastDone, granted, leftover, faults, opCount

blockingVars ==
  <<focusMode, blockedSites, temporaryOverrides, focusStartTime, blockedAttempts,
    stored, dynRules, bprocs, timers, lastDone, granted, leftover, faults, opCount>>

timeVars == <<clock, mono>>

VARIABLES
  \* FocusTimeTracker fields (constructor, src/background.js 1025-1055)
  currentSession, isSessionPaused, pausedAt, totalPausedTime, lastActivityTime,
  autoManagementEnabled,
  \* chrome.storage.local: the key settings, and today's entry of the key stats
  settings, stats,
  \* FocusTimeTracker handlers in flight, and the due time of the next
  \* callback of the 30-second setInterval
  tprocs, nextFlush,
  \* history: the tracked session's ledger, the entries handed to
  \* saveTimeEntry so far, the last such call, whether the clock has been
  \* set back, and the number of events delivered
  sess, credited, lastCall, jumpedBack, topCount

trackerVars ==
  <<currentSession, isSessionPaused, pausedAt, totalPausedTime, lastActivityTime,
    autoManagementEnabled, settings, stats, tprocs, nextFlush, sess, credited, lastCall,
    jumpedBack, topCount>>

VARIABLES
  \* the EnhancedActivityManager (src/enhanced-activity-manager.js): its
  \* fields with its call of setAutoManagement in flight, and the number of
  \* events it has handled
  manager, managerOps,
  \* chrome.storage.local: the keys activitySettings and activityState
  activitySettings, activityState

managerVars == <<manager, managerOps, activitySettings, activityState>>

VARIABLES
  \* BlockingManager.urlCache: tabId -> original URL (src/background.js 599)
  urlCache,
  \* the browser: the URL each tab shows, and the active tab
  tabUrl, activeTab,
  \* the script of the blocked page in each tab: where its initialize() waits
  pages,
  \* history: per tab, the URL of the last navigation that an installed rule
  \* redirected to the blocked page
  redirected

navVars == <<urlCache, tabUrl, activeTab, pages, redirected>>

ProcIds == 1..MaxProcs

\* Date.now() when the service worker first starts
StartClock == 2 * DefaultOverrideMs

\* the durations setTemporaryOverride is called with
Durations == {DefaultOverrideMs \div 2, DefaultOverrideMs}

\* the step of the clock in the blocking engine's behaviours
BlockingTickMs == DefaultOverrideMs \div 2

(***************************************************************************)
(* Values.                                                                 *)
(***************************************************************************)
\* what initialize() reads when a key is absent: settings.x || default
DefaultStore ==
  [focusMode |-> FALSE, blockedSites |-> <<>>, focusStartTime |-> Null, blockedAttempts |-> 0]

\* the argument of chrome.storage.local.set in saveState, evaluated at the call
Snapshot ==
  [focusMode |-> focusMode, blockedSites |-> blockedSites,
   focusStartTime |-> focusStartTime, blockedAttempts |-> blockedAttempts]

NoOverrides == [d \in {} |-> 0]

\* urlCache = new Map()
NoUrls == [t \in {} |-> <<>>]

Idle ==
  [op |-> "idle", pc |-> "idle", dom |-> <<>>, dur |-> 0, ids |-> {}, rules |-> {},
   snap |-> DefaultStore]

NoDone == [op |-> "none", ok |-> FALSE, dom |-> <<>>]

\* blockedSites is a JavaScript Set: it iterates in insertion order
Members(seq) == {seq[i] : i \in 1..Len(seq)}

\* Set.add
SetAdd(seq, d) == IF d \in Members(seq) THEN seq ELSE Append(seq, d)

\* Set.delete
SetDelete(seq, d) == SelectSeq(seq, LAMBDA e : e # d)

\* Map.set
MapSet(m, d, v) == [x \in (DOMAIN m) \cup {d} |-> IF x = d THEN v ELSE m[x]]

\* Map.delete
MapDelete(m, d) == [x \in (DOMAIN m) \ {d} |-> m[x]]

\* a removal that names only the lowest rule id: clearing with it leaves rules behind
LowestRuleIdOnly(rules) == {r.id : r \in {x \in rules : \A y \in rules : x.id <= y.id}}

\* existingRules.map(rule => rule.id)
RuleIds(rules) == {r.id : r \in rules}

\* temporaryOverrides.has(domain) && Date.now() < expiryTime
OverrideActive(ov, d, now) == d \in DOMAIN ov /\ now < ov[d]

(***************************************************************************)
(* updateBlockingRules, lines 811-856: the rules built from the blocked    *)
(* list, two per domain that has no active override, numbered from 1 in    *)
(* the order of the list.                                                  *)
(***************************************************************************)
\* a compilation that forgets the subdomain rule
BareRuleOnly(domain, firstId) ==
  { [id |-> firstId + 1, urlFilter |-> BareFilter(domain), redirect |-> BlockedPage] }

RulesForDomain(domain, firstId) ==
  { [id |-> firstId, urlFilter |-> SubdomainFilter(domain), redirect |-> BlockedPage],
    [id |-> firstId + 1, urlFilter |-> BareFilter(domain), redirect |-> BlockedPage] }

RECURSIVE CompileFrom(_, _, _, _)
CompileFrom(sites, ov, now, ruleId) ==
  IF sites = <<>> THEN {}
  ELSE IF OverrideActive(ov, Head(sites), now)
       THEN CompileFrom(Tail(sites), ov, now, ruleId)
       ELSE RulesForDomain(Head(sites), ruleId)
              \cup CompileFrom(Tail(sites), ov, now, ruleId + 2)

CompileRules(sites, ov, now) == CompileFrom(sites, ov, now, 1)

\* lines 823-826: an expired override of a blocked domain is deleted on the way
OverridesAfterCompile(sites, ov, now) ==
  [d \in {x \in DOMAIN ov : ~(x \in Members(sites) /\ ~(now < ov[x]))} |-> ov[d]]

\* shouldBlockDomain's return value, lines 771-787
ShouldBlockDomain(raw) ==
  IF ~focusMode THEN FALSE
  ELSE IF OverrideActive(temporaryOverrides, CleanDomain(raw), clock) THEN FALSE
       ELSE CleanDomain(raw) \in Members(blockedSites)


(***************************************************************************)
(* Handlers in flight.                                                     *)
(***************************************************************************)
FreeProcs == {p \in ProcIds : bprocs[p].op = "idle"}

NoneInFlight == FreeProcs = ProcIds

\* the slot a new handler takes
NewProc == CHOOSE p \in FreeProcs : \A q \in FreeProcs : p <= q

CanStart == FreeProcs # {}

Spawn(op, pc, dom, dur, snap) ==
  [bprocs EXCEPT ![NewProc] =
     [op |-> op, pc |-> pc, dom |-> dom, dur |-> dur, ids |-> {}, rules |-> {},
      snap |-> snap]]

\* history: the handler that finishes and what it returns
Done(p, ok) == [op |-> bprocs[p].op, ok |-> ok, dom |-> bprocs[p].dom]

(***************************************************************************)
(* The commands, up to their first await.                                  *)
(***************************************************************************)
\* toggleFocusMode, lines 645-652 and 662-664
StartToggle ==
  /\ CanStart
  /\ focusMode' = ~focusMode
  /\ focusStartTime' = IF focusMode' THEN clock ELSE Null
  /\ blockedAttempts' = IF focusMode' THEN 0 ELSE blockedAttempts
  /\ bprocs' = Spawn("toggle", IF focusMode' THEN "get" ELSE "cget", <<>>, 0, DefaultStore)
  /\ opCount' = opCount + 1
  /\ lastDone' = NoDone
  /\ UNCHANGED <<blockedSites, temporaryOverrides, stored, dynRules, timers, granted,
                 leftover, faults, timeVars, trackerVars, managerVars, navVars>>

\* addBlockedSite, lines 691-699
StartAdd(raw) ==
  /\ CanStart
  /\ opCount' = opCount + 1
  /\ IF raw = <<>>
     THEN /\ lastDone' = [op |-> "add", ok |-> FALSE, dom |-> raw]
          /\ UNCHANGED <<blockedSites, bprocs>>
     ELSE /\ blockedSites' = SetAdd(blockedSites, CleanDomain(raw))
          /\ bprocs' = Spawn("add", "save", CleanDomain(raw), 0,
                             [Snapshot EXCEPT !.blockedSites = blockedSites'])
          /\ lastDone' = NoDone
  /\ UNCHANGED <<focusMode, temporaryOverrides, focusStartTime, blockedAttempts, stored,
                 dynRules, timers, granted, leftover, faults, timeVars, trackerVars, managerVars,
                 navVars>>

\* removeBlockedSite, lines 717-722
StartRemove(raw) ==
  /\ CanStart
  /\ opCount' = opCount + 1
  /\ blockedSites' = SetDelete(blockedSites, CleanDomain(raw))
  /\ bprocs' = Spawn("remove", "save", CleanDomain(raw), 0,
                     [Snapshot EXCEPT !.blockedSites = blockedSites'])
  /\ lastDone' = NoDone
  /\ UNCHANGED <<focusMode, temporaryOverrides, focusStartTime, blockedAttempts, stored,
                 dynRules, timers, granted, leftover, faults, timeVars, trackerVars, managerVars,
                 navVars>>

\* setTemporaryOverride, lines 740-758
StartOverride(raw, duration) ==
  /\ CanStart
  /\ opCount' = opCount + 1
  /\ temporaryOverrides' = MapSet(temporaryOverrides, CleanDomain(raw), clock + duration)
  /\ granted' = [granted EXCEPT ![CleanDomain(raw)] = clock + duration]
  /\ IF focusMode
     THEN /\ bprocs' = Spawn("override", "get", CleanDomain(raw), duration, DefaultStore)
          /\ lastDone' = NoDone
          /\ UNCHANGED timers
     ELSE /\ timers' = Append(timers, [dom |-> CleanDomain(raw), at |-> mono + duration])
          /\ lastDone' = [op |-> "override", ok |-> TRUE, dom |-> CleanDomain(raw)]
          /\ UNCHANGED bprocs
  /\ UNCHANGED <<focusMode, blockedSites, focusStartTime, blockedAttempts, stored, dynRules,
                 leftover, faults, timeVars, trackerVars, managerVars, navVars>>

\* the setTimeout callback of setTemporaryOverride, lines 753-758
TimerFire(i) ==
  /\ i \in 1..Len(timers)
  /\ timers[i].at <= mono
  /\ \A j \in 1..Len(timers) :
       j = i \/ timers[j].at > timers[i].at \/ (timers[j].at = timers[i].at /\ j > i)
  /\ focusMode => FreeProcs # {}
  /\ timers' = SubSeq(timers, 1, i - 1) \o SubSeq(timers, i + 1, Len(timers))
  /\ temporaryOverrides' = MapDelete(temporaryOverrides, timers[i].dom)
  /\ bprocs' = IF focusMode THEN Spawn("timer", "get", timers[i].dom, 0, DefaultStore)
               ELSE bprocs
  /\ lastDone' = NoDone
  /\ UNCHANGED <<focusMode, blockedSites, focusStartTime, blockedAttempts, stored, dynRules,
                 granted, leftover, faults, opCount, timeVars, trackerVars, managerVars, navVars>>

\* shouldBlockDomain, lines 771-787: it deletes the expired override it meets
QueryShouldBlock(raw) ==
  /\ temporaryOverrides' =
       IF focusMode /\ CleanDomain(raw) \in DOMAIN temporaryOverrides
                    /\ ~(clock < temporaryOverrides[CleanDomain(raw)])
       THEN MapDelete(temporaryOverrides, CleanDomain(raw))
       ELSE temporaryOverrides
  /\ lastDone' = NoDone
  /\ UNCHANGED <<focusMode, blockedSites, focusStartTime, blockedAttempts, stored, dynRules,
                 bprocs, timers, granted, leftover, faults, opCount, timeVars, trackerVars,
                 managerVars, navVars>>

\* The service worker is stopped and started again: the constructor (lines
\* 595-604) runs and calls initialize(), which awaits its storage read.
\* Storage and the dynamic rules outlive the worker; its memory, its timers
\* and its handlers do not.
Restart ==
  /\ opCount < MaxOps
  /\ opCount' = opCount + 1
  /\ focusMode' = FALSE
  /\ blockedSites' = <<>>
  /\ temporaryOverrides' = NoOverrides
  /\ focusStartTime' = Null
  /\ blockedAttempts' = 0
  /\ timers' = <<>>
  /\ bprocs' = [p \in ProcIds |->
                  IF p = 1 THEN [Idle EXCEPT !.op = "init", !.pc = "load"]
                  ELSE Idle]
  /\ granted' = [d \in CleanDomains |-> 0]
  /\ leftover' = dynRules
  /\ lastDone' = NoDone
  /\ urlCache' = NoUrls
  /\ UNCHANGED <<stored, dynRules, faults, timeVars, trackerVars, managerVars, tabUrl, activeTab,
                 pages, redirected>>


(***************************************************************************)
(* The browser's side of the calls: each takes effect at some moment       *)
(* between the call and the handler's resumption.                          *)
(***************************************************************************)
\* chrome.storage.local.get([...]) of initialize, lines 609-614
LoadEffect(p) ==
  /\ bprocs[p].pc = "load"
  /\ bprocs' = [bprocs EXCEPT ![p].snap = stored, ![p].pc = "loaded"]
  /\ lastDone' = NoDone
  /\ UNCHANGED <<focusMode, blockedSites, temporaryOverrides, focusStartTime,
                 blockedAttempts, stored, dynRules, timers, granted, leftover, faults, opCount,
                 timeVars, trackerVars, managerVars, navVars>>

\* chrome.storage.local.set({...}) of saveState, lines 955-960
SaveEffect(p) ==
  /\ bprocs[p].pc = "save"
  /\ stored' = bprocs[p].snap
  /\ bprocs' = [bprocs EXCEPT ![p].pc = "saved"]
  /\ lastDone' = NoDone
  /\ UNCHANGED <<focusMode, blockedSites, temporaryOverrides, focusStartTime,
                 blockedAttempts, dynRules, timers, granted, leftover, faults, opCount,
                 timeVars, trackerVars, managerVars, navVars>>

\* chrome.declarativeNetRequest.getDynamicRules(), lines 795-796 and 880-881
GetRulesEffect(p) ==
  /\ bprocs[p].pc \in {"get", "cget"}
  /\ bprocs' = [bprocs EXCEPT ![p].ids = RuleIds(dynRules),
                              ![p].pc = IF bprocs[p].pc = "get" THEN "got" ELSE "cgot"]
  /\ lastDone' = NoDone
  /\ UNCHANGED <<focusMode, blockedSites, temporaryOverrides, focusStartTime,
                 blockedAttempts, stored, dynRules, timers, granted, leftover, faults, opCount,
                 timeVars, trackerVars, managerVars, navVars>>

\* updateDynamicRules({ removeRuleIds }), lines 799-801 and 884-886
RemoveRulesEffect(p) ==
  /\ bprocs[p].pc \in {"rem", "crem"}
  /\ dynRules' = {r \in dynRules : r.id \notin bprocs[p].ids}
  /\ bprocs' = [bprocs EXCEPT ![p].pc = IF bprocs[p].pc = "rem" THEN "removed" ELSE "cremoved"]
  /\ lastDone' = NoDone
  /\ UNCHANGED <<focusMode, blockedSites, temporaryOverrides, focusStartTime,
                 blockedAttempts, stored, timers, granted, leftover, faults, opCount, timeVars,
                 trackerVars, managerVars, navVars>>

\* updateDynamicRules({ addRules }), lines 859-861: the browser rejects the
\* whole call, changing nothing, when a rule's id is already in use
AddRulesEffect(p) ==
  /\ bprocs[p].pc = "add"
  /\ IF RuleIds(bprocs[p].rules) \cap RuleIds(dynRules) # {}
     THEN /\ bprocs' = [bprocs EXCEPT ![p].pc = "addfail"]
          /\ UNCHANGED dynRules
     ELSE /\ dynRules' = dynRules \cup bprocs[p].rules
          /\ bprocs' = [bprocs EXCEPT ![p].pc = "added"]
  /\ lastDone' = NoDone
  /\ UNCHANGED <<focusMode, blockedSites, temporaryOverrides, focusStartTime,
                 blockedAttempts, stored, timers, granted, leftover, faults, opCount, timeVars,
                 trackerVars, managerVars, navVars>>

(***************************************************************************)
(* The handlers' resumptions.                                              *)
(***************************************************************************)
\* initialize, lines 618-625: the fields are set from what was read, then
\* clearBlockingRules is called
ResumeLoaded(p) ==
  /\ bprocs[p].pc = "loaded"
  /\ focusMode' = bprocs[p].snap.focusMode
  /\ blockedSites' = bprocs[p].snap.blockedSites
  /\ focusStartTime' = bprocs[p].snap.focusStartTime
  /\ blockedAttempts' = bprocs[p].snap.blockedAttempts
  /\ bprocs' = [bprocs EXCEPT ![p].pc = "cget"]
  /\ lastDone' = NoDone
  /\ UNCHANGED <<temporaryOverrides, stored, dynRules, timers, granted, leftover, faults, opCount,
                 timeVars, trackerVars, managerVars, navVars>>

\* What follows clearBlockingRules: in initialize (lines 628-630) the rules
\* are updated if focus mode is on; in toggleFocusMode the state is saved
\* (line 674).
AfterClear(p) ==
  IF bprocs[p].op = "reset"
  THEN
  \* resetBlockingState, lines 995-1003: the fields are reset and the keys
  \* are removed from storage
  /\ focusMode' = FALSE
  /\ blockedSites' = <<>>
  /\ temporaryOverrides' = NoOverrides
  /\ focusStartTime' = Null
  /\ blockedAttempts' = 0
  /\ bprocs' = [bprocs EXCEPT ![p].pc = "remove"]
  /\ lastDone' = NoDone
  /\ UNCHANGED <<stored, dynRules, timers, granted, leftover, faults, opCount, timeVars,
                 trackerVars, managerVars, navVars>>
  ELSE
  /\ IF bprocs[p].op = "toggle"
     THEN /\ bprocs' = [bprocs EXCEPT ![p].pc = "save", ![p].snap = Snapshot]
          /\ lastDone' = NoDone
     ELSE IF focusMode
          THEN /\ bprocs' = [bprocs EXCEPT ![p].pc = "get"]
               /\ lastDone' = NoDone
          ELSE /\ bprocs' = [bprocs EXCEPT ![p] = Idle]
               /\ lastDone' = Done(p, TRUE)
  /\ UNCHANGED <<focusMode, blockedSites, temporaryOverrides, focusStartTime,
                 blockedAttempts, stored, dynRules, timers, granted, leftover, faults, opCount,
                 timeVars, trackerVars, managerVars, navVars>>

\* clearBlockingRules, lines 881-889
ResumeClearGot(p) ==
  /\ bprocs[p].pc = "cgot"
  /\ IF bprocs[p].ids # {}
     THEN /\ bprocs' = [bprocs EXCEPT ![p].pc = "crem"]
          /\ lastDone' = NoDone
          /\ UNCHANGED <<focusMode, blockedSites, temporaryOverrides, focusStartTime,
                         blockedAttempts, stored, dynRules, timers, granted, leftover, faults,
                         opCount, timeVars, trackerVars, managerVars, navVars>>
     ELSE AfterClear(p)

ResumeCleared(p) ==
  /\ bprocs[p].pc = "cremoved"
  /\ AfterClear(p)

\* What follows updateBlockingRules in its caller: toggleFocusMode saves the
\* state (line 674) or, when the update threw, returns the error (682-685)
\* without saving; addBlockedSite, removeBlockedSite return; setTemporaryOverride
\* sets its timer (753-758) unless the update threw; the timer callback and
\* initialize end.
AfterUpdate(p, ok) ==
  /\ IF bprocs[p].op = "toggle" /\ ok
     THEN /\ bprocs' = [bprocs EXCEPT ![p].pc = "save", ![p].snap = Snapshot]
          /\ lastDone' = NoDone
     ELSE /\ bprocs' = [bprocs EXCEPT ![p] = Idle]
          /\ lastDone' = Done(p, ok)
  /\ timers' = IF bprocs[p].op = "override" /\ ok
               THEN Append(timers, [dom |-> bprocs[p].dom, at |-> mono + bprocs[p].dur])
               ELSE timers

\* updateBlockingRules, lines 805-867, once the old rules are removed
AfterRemoval(p) ==
  IF ~focusMode \/ blockedSites = <<>>
  THEN /\ AfterUpdate(p, TRUE)
       /\ UNCHANGED <<focusMode, blockedSites, temporaryOverrides, focusStartTime,
                      blockedAttempts, stored, dynRules, granted, leftover, faults, opCount,
                      timeVars, trackerVars, managerVars, navVars>>
  ELSE /\ temporaryOverrides' = OverridesAfterCompile(blockedSites, temporaryOverrides, clock)
       /\ IF CompileRules(blockedSites, temporaryOverrides, clock) # {}
          THEN /\ bprocs' = [bprocs EXCEPT
                    ![p].rules = CompileRules(blockedSites, temporaryOverrides, clock),
                    ![p].pc = "add"]
               /\ lastDone' = NoDone
               /\ UNCHANGED timers
          ELSE AfterUpdate(p, TRUE)
       /\ UNCHANGED <<focusMode, blockedSites, focusStartTime, blockedAttempts, stored,
                      dynRules, granted, leftover, faults, opCount, timeVars, trackerVars,
                      managerVars, navVars>>

\* updateBlockingRules, lines 796-803
ResumeGot(p) ==
  /\ bprocs[p].pc = "got"
  /\ IF bprocs[p].ids # {}
     THEN /\ bprocs' = [bprocs EXCEPT ![p].pc = "rem"]
          /\ lastDone' = NoDone
          /\ UNCHANGED <<focusMode, blockedSites, temporaryOverrides, focusStartTime,
                         blockedAttempts, stored, dynRules, timers, granted, leftover, faults,
                         opCount, timeVars, trackerVars, managerVars, navVars>>
     ELSE AfterRemoval(p)

ResumeRemoved(p) ==
  /\ bprocs[p].pc = "removed"
  /\ AfterRemoval(p)

\* updateBlockingRules returns (line 863) or rethrows (868-871)
ResumeAdded(p) ==
  /\ bprocs[p].pc \in {"added", "addfail"}
  /\ AfterUpdate(p, bprocs[p].pc = "added")
  /\ UNCHANGED <<focusMode, blockedSites, temporaryOverrides, focusStartTime,
                 blockedAttempts, stored, dynRules, granted, leftover, faults, opCount,
                 timeVars, trackerVars, managerVars, navVars>>

\* after saveState: toggleFocusMode returns (676-681); addBlockedSite and
\* removeBlockedSite update the rules if focus mode is on (702-704, 725-727);
\* resetBlockingState returns (1008-1009)
ResumeSaved(p) ==
  /\ bprocs[p].pc = "saved"
  /\ IF bprocs[p].op \in {"add", "remove"} /\ focusMode
     THEN /\ bprocs' = [bprocs EXCEPT ![p].pc = "get"]
          /\ lastDone' = NoDone
     ELSE /\ bprocs' = [bprocs EXCEPT ![p] = Idle]
          /\ lastDone' = Done(p, TRUE)
  /\ UNCHANGED <<focusMode, blockedSites, temporaryOverrides, focusStartTime,
                 blockedAttempts, stored, dynRules, timers, granted, leftover, faults, opCount,
                 timeVars, trackerVars, managerVars, navVars>>

(***************************************************************************)
(* resetBlockingState, and browser calls that are rejected.                *)
(***************************************************************************)
\* resetBlockingState, lines 988-993, up to the first await of
\* clearBlockingRules
StartReset ==
  /\ CanStart
  /\ opCount' = opCount + 1
  /\ bprocs' = Spawn("reset", "cget", <<>>, 0, DefaultStore)
  /\ lastDone' = NoDone
  /\ UNCHANGED <<focusMode, blockedSites, temporaryOverrides, focusStartTime,
                 blockedAttempts, stored, dynRules, timers, granted, leftover, faults,
                 timeVars, trackerVars, managerVars, navVars>>

\* chrome.storage.local.remove([...]), line 1003: an absent key reads as its
\* default
RemoveKeysEffect(p) ==
  /\ bprocs[p].pc = "remove"
  /\ stored' = DefaultStore
  /\ bprocs' = [bprocs EXCEPT ![p].pc = "keysremoved"]
  /\ lastDone' = NoDone
  /\ UNCHANGED <<focusMode, blockedSites, temporaryOverrides, focusStartTime,
                 blockedAttempts, dynRules, timers, granted, leftover, faults, opCount,
                 timeVars, trackerVars, managerVars, navVars>>

\* resetBlockingState after the removal: it saves the clean state (line
\* 1006), or returns the error when the removal was rejected (1010-1013)
ResumeKeysRemoved(p) ==
  /\ bprocs[p].pc \in {"keysremoved", "resetfail"}
  /\ IF bprocs[p].pc = "keysremoved"
     THEN /\ bprocs' = [bprocs EXCEPT ![p].pc = "save", ![p].snap = Snapshot]
          /\ lastDone' = NoDone
     ELSE /\ bprocs' = [bprocs EXCEPT ![p] = Idle]
          /\ lastDone' = Done(p, FALSE)
  /\ UNCHANGED <<focusMode, blockedSites, temporaryOverrides, focusStartTime,
                 blockedAttempts, stored, dynRules, timers, granted, leftover, faults,
                 opCount, timeVars, trackerVars, managerVars, navVars>>

\* handlers that take every rejected call for an answered one
RejectionsSwallowed(pc) ==
  CASE pc = "save" -> "saved"
    [] pc \in {"cget", "crem"} -> "cremoved"
    [] pc \in {"get", "rem"} -> "removed"
    [] pc = "add" -> "added"
    [] pc = "remove" -> "keysremoved"

\* where a handler goes on when the browser call it waits for is rejected:
\* saveState logs the error and returns (961-963); clearBlockingRules logs it
\* and returns (890-892); updateBlockingRules rethrows it (868-871);
\* resetBlockingState catches the rejected removal (1010-1013)
AfterRejected(pc) ==
  CASE pc = "save" -> "saved"
    [] pc \in {"cget", "crem"} -> "cremoved"
    [] pc \in {"get", "rem", "add"} -> "addfail"
    [] pc = "remove" -> "resetfail"

\* the browser rejects the call a handler waits for; the call changes nothing
ApiFails(p) ==
  /\ bprocs[p].pc \in {"save", "cget", "crem", "get", "rem", "add", "remove"}
  /\ bprocs' = [bprocs EXCEPT ![p].pc = AfterRejected(bprocs[p].pc)]
  /\ faults' = faults \cup {[n |-> opCount, op |-> bprocs[p].op, dom |-> bprocs[p].dom,
                              call |-> bprocs[p].pc]}
  /\ lastDone' = NoDone
  /\ UNCHANGED <<focusMode, blockedSites, temporaryOverrides, focusStartTime,
                 blockedAttempts, stored, dynRules, timers, granted, leftover, opCount,
                 timeVars, trackerVars, managerVars, navVars>>

(***************************************************************************)
(* Time.                                                                   *)
(***************************************************************************)
Tick(ms) ==
  /\ mono + ms <= MaxTicks * ms
  /\ clock' = clock + ms
  /\ mono' = mono + ms

(***************************************************************************)
(* The time tracker: values.                                               *)
(***************************************************************************)
\* stopCurrentTracking saves more than one second and rounds to seconds
SecondMs == 1000

\* saveCurrentSession saves whole minutes
MinuteMs == 60000

\* the period of the setInterval of setupEventListeners
SaveIntervalMs == 30000

\* inactivityThreshold
InactivityThresholdMs == 300000

\* the step of the clock in the tracker's behaviours: two steps make 65 s
TrackerTickMs == SaveIntervalMs + (5 * SecondMs) \div 2

\* the amount a correction sets Date.now() back by
JumpBackMs == TrackerTickMs

TProcIds == 1..MaxTrackerProcs

\* the tabs of the browser and their URLs
SiteUrl ==
  <<"h", "t", "t", "p", "s", ":", "/", "/", "w", "w", "w", ".", "x", ".", "i", "o", "/", "p">>

NewTabUrl == <<"c", "h", "r", "o", "m", "e", ":", "/", "/", "n", "e", "w", "t", "a", "b">>

\* a page of a subdomain of the site
SubdomainUrl ==
  <<"h", "t", "t", "p", "s", ":", "/", "/", "m", ".", "x", ".", "i", "o", "/", "p">>

TabUrl == <<SiteUrl, NewTabUrl>>

Tabs == DOMAIN TabUrl

\* timeSinceLastActivity in the payloads of ENHANCED_ACTIVITY_DETECTED
InactiveFor ==
  {InactivityThresholdMs, InactivityThresholdMs + 1, InactivityThresholdMs + MinuteMs}

\* isTrackableUrl
NonTrackableProtocols ==
  { <<"c", "h", "r", "o", "m", "e", ":">>,
    <<"c", "h", "r", "o", "m", "e", "-", "e", "x", "t", "e", "n", "s", "i", "o", "n", ":">>,
    <<"m", "o", "z", "-", "e", "x", "t", "e", "n", "s", "i", "o", "n", ":">>,
    <<"a", "b", "o", "u", "t", ":">>,
    <<"f", "i", "l", "e", ":">> }

IsTrackableUrl(url) == ~\E protocol \in NonTrackableProtocols : StartsWith(url, protocol)

\* String.replace(pattern, '') with a string pattern: the first occurrence goes
RECURSIVE RemoveFirst(_, _)
RemoveFirst(s, pattern) ==
  IF Len(s) < Len(pattern) THEN s
  ELSE IF StartsWith(s, pattern) THEN SubSeq(s, Len(pattern) + 1, Len(s))
       ELSE <<Head(s)>> \o RemoveFirst(Tail(s), pattern)

\* new URL(url).hostname of an http(s) URL without port or credentials
Hostname(url) == BeforeSlash(DropPrefix(DropPrefix(url, HttpsPrefix), HttpPrefix))

\* extractDomain
ExtractDomain(url) == RemoveFirst(Hostname(url), WwwPrefix)

\* currentSession.domain = null
NoDomain == <<>>

\* the property name that stats.sites[domain] uses
KeyOf(domain) == IF domain = NoDomain THEN <<"n", "u", "l", "l">> ELSE domain

\* a value that JavaScript treats as true: neither null nor 0
Truthy(x) == x # Null /\ x # 0

\* null in arithmetic
Num(x) == IF x = Null THEN 0 ELSE x

NoSession ==
  [tabId |-> Null, domain |-> NoDomain, startTime |-> Null, savedTime |-> 0,
   isActive |-> FALSE]

\* today's entry as saveTimeEntry creates it; sitesVisited and
\* productivityScore are recomputed from sites at every write
EmptyStats == [sites |-> [k \in {} |-> 0], totalTime |-> 0]

\* an update that stores the call's time as the day's total
AddEntryResetsTotal(entry, domain, timeSpent, visits) ==
  LET key == KeyOf(domain)
      old == IF key \in DOMAIN entry.sites THEN entry.sites[key]
             ELSE [timeSpent |-> 0, visits |-> 0]
  IN  [sites |-> [k \in (DOMAIN entry.sites) \cup {key} |->
                    IF k = key
                    THEN [timeSpent |-> old.timeSpent + timeSpent,
                          visits |-> old.visits + visits]
                    ELSE entry.sites[k]],
       totalTime |-> timeSpent]

\* saveTimeEntry, lines 76-95: what it makes of the entry it has read
AddEntry(entry, domain, timeSpent, visits) ==
  LET key == KeyOf(domain)
      old == IF key \in DOMAIN entry.sites THEN entry.sites[key]
             ELSE [timeSpent |-> 0, visits |-> 0]
  IN  [sites |-> [k \in (DOMAIN entry.sites) \cup {key} |->
                    IF k = key
                    THEN [timeSpent |-> old.timeSpent + timeSpent,
                          visits |-> old.visits + visits]
                    ELSE entry.sites[k]],
       totalTime |-> entry.totalTime + timeSpent]

TIdle ==
  [op |-> "idle", pc |-> "idle", stage |-> "none", tab |-> 0, domain |-> NoDomain,
   delta |-> 0, visits |-> 0, now |-> 0, net |-> 0, read |-> EmptyStats, url |-> <<>>]

\* history: no session has been tracked yet
NoSess ==
  [state |-> "none", t0 |-> 0, t1 |-> 0, added |-> 0, visits |-> 0, calls |-> 0,
   paused |-> 0, clean |-> TRUE, jumped |-> FALSE, written |-> 0, failed |-> 0]

\* the tracker as its constructor leaves it, before initialize() has run
\* EnhancedActivityManager.constructor, src/enhanced-activity-manager.js 8-35;
\* saving is the setAutoManagement call waiting for its saveSettings, loading
\* the loadCurrentState call waiting for its storage read
NewManager ==
  [isUserActive |-> TRUE, isTabVisible |-> TRUE, lastActivityTime |-> StartClock,
   isSessionPaused |-> FALSE, pausedAt |-> Null, totalPausedTime |-> 0,
   autoManagementEnabled |-> TRUE, saving |-> "none", loading |-> FALSE]

\* chrome.storage.local without the key activityState
NoActivityState ==
  [present |-> FALSE, isUserActive |-> TRUE, isTabVisible |-> TRUE, lastActivityTime |-> 0,
   isSessionPaused |-> FALSE, pausedAt |-> Null, totalPausedTime |-> 0, savedAt |-> 0]

ManagerConstructed ==
  /\ manager = NewManager
  /\ managerOps = 0
  /\ activitySettings = [autoManagementEnabled |-> "absent"]
  /\ activityState = NoActivityState

\* chrome.runtime.getURL('/blocked.html'): what a redirected tab shows
BlockedPageUrl ==
  <<"c", "h", "r", "o", "m", "e", "-", "e", "x", "t", "e", "n", "s", "i", "o", "n", ":",
    "/", "/", "i", "d">> \o BlockedPage

\* a tab that does not show the blocked page
NoPage == [pc |-> "none", url |-> <<>>]

\* the browser's tabs when the worker starts with an empty urlCache (line
\* 599): no tab shows the blocked page
BrowserStarted(tab) ==
  /\ urlCache = NoUrls
  /\ tabUrl = TabUrl
  /\ activeTab = tab
  /\ pages = [t \in Tabs |-> NoPage]
  /\ redirected = [t \in Tabs |-> <<>>]

\* getDefaultSettings, lines 47-55: focusMode false, no autoSessionManagement key
DefaultSettings == [autoSessionManagement |-> "absent", focusMode |-> FALSE]

TrackerConstructed ==
  /\ currentSession = NoSession
  /\ isSessionPaused = FALSE
  /\ pausedAt = Null
  /\ totalPausedTime = 0
  /\ lastActivityTime = StartClock
  /\ autoManagementEnabled = TRUE
  /\ settings = DefaultSettings
  /\ stats = EmptyStats
  /\ nextFlush = SaveIntervalMs
  /\ sess = NoSess
  /\ credited = EmptyStats
  /\ lastCall = [delta |-> 0, jumped |-> FALSE]
  /\ jumpedBack = FALSE
  /\ topCount = 0

(***************************************************************************)
(* The blocking engine.                                                    *)
(***************************************************************************)
InitBlocking ==
  /\ TrackerConstructed
  /\ ManagerConstructed
  /\ BrowserStarted(1)
  /\ tprocs = [p \in TProcIds |-> TIdle]
  /\ focusMode = FALSE
  /\ blockedSites = <<>>
  /\ temporaryOverrides = NoOverrides
  /\ focusStartTime = Null
  /\ blockedAttempts = 0
  /\ stored = DefaultStore
  /\ dynRules = {}
  /\ bprocs = [p \in ProcIds |->
                 IF p = 1 THEN [Idle EXCEPT !.op = "init", !.pc = "load"]
                 ELSE Idle]
  /\ timers = <<>>
  /\ lastDone = NoDone
  /\ granted = [d \in CleanDomains |-> 0]
  /\ leftover = {}
  /\ faults = {}
  /\ opCount = 0
  /\ clock = StartClock
  /\ mono = 0

BlockingTick == Tick(BlockingTickMs) /\ lastDone' = NoDone /\
  UNCHANGED <<focusMode, blockedSites, temporaryOverrides, focusStartTime, blockedAttempts,
              stored, dynRules, bprocs, timers, granted, leftover, faults, opCount,
              trackerVars, managerVars, navVars>>

vars == <<blockingVars, timeVars, trackerVars, managerVars, navVars>>


(***************************************************************************)
(* Sequential use: a command, a timer callback or a query starts only when *)
(* no handler is in flight.  A restart may come at any moment.             *)
(***************************************************************************)
SeqCommand ==
  /\ NoneInFlight
  /\ opCount < MaxOps
  /\ \/ StartToggle
     \/ \E raw \in RawDomains \cup {<<>>} : StartAdd(raw)
     \/ \E raw \in RawDomains : StartRemove(raw)
     \/ \E raw \in RawDomains, duration \in Durations : StartOverride(raw, duration)

SeqCallback ==
  /\ NoneInFlight
  /\ \/ \E raw \in RawDomains : QueryShouldBlock(raw)
     \/ \E i \in 1..Len(timers) : TimerFire(i)

HandlerStep ==
  \E p \in ProcIds :
    \/ LoadEffect(p)
    \/ SaveEffect(p)
    \/ GetRulesEffect(p)
    \/ RemoveRulesEffect(p)
    \/ AddRulesEffect(p)
    \/ ResumeLoaded(p)
    \/ ResumeClearGot(p)
    \/ ResumeCleared(p)
    \/ ResumeGot(p)
    \/ ResumeRemoved(p)
    \/ ResumeAdded(p)
    \/ ResumeSaved(p)

NextBlockingSeq == SeqCommand \/ SeqCallback \/ Restart \/ HandlerStep \/ BlockingTick

SpecBlockingSeq == InitBlocking /\ [][NextBlockingSeq]_vars

(***************************************************************************)
(* Commands at startup: the worker has just started and initialize() may   *)
(* still wait for its storage read or its rule calls when a command        *)
(* arrives (the message listener is registered in the same turn, and no    *)
(* handler waits for initialize); the commands themselves do not overlap   *)
(* one another.                                                            *)
(***************************************************************************)
OnlyInitInFlight == \A p \in ProcIds : bprocs[p].op \in {"idle", "init"}

StartupCommand ==
  /\ OnlyInitInFlight
  /\ opCount < MaxOps
  /\ \/ StartToggle
     \/ \E raw \in RawDomains : StartAdd(raw)
     \/ \E raw \in RawDomains : StartRemove(raw)

NextStartupRace == StartupCommand \/ HandlerStep

SpecStartupRace == InitBlocking /\ [][NextStartupRace]_vars

(***************************************************************************)
(* Sequential use with a browser whose calls may be rejected, and with     *)
(* raw domains that have no hostname.                                      *)
(***************************************************************************)
\* a protocol prefix alone, and a path alone
InvalidRaws == {<<"h", "t", "t", "p", "s", ":", "/", "/">>, <<"/", "p">>}

FaultCommand ==
  /\ NoneInFlight
  /\ opCount < MaxOps
  /\ \/ StartToggle
     \/ \E raw \in RawDomains \cup InvalidRaws \cup {<<>>} : StartAdd(raw)
     \/ \E raw \in RawDomains : StartRemove(raw)
     \/ StartReset

FaultHandlerStep ==
  \E p \in ProcIds :
    \/ LoadEffect(p)
    \/ ResumeLoaded(p)
    \/ SaveEffect(p)
    \/ GetRulesEffect(p)
    \/ RemoveRulesEffect(p)
    \/ AddRulesEffect(p)
    \/ RemoveKeysEffect(p)
    \/ ApiFails(p)
    \/ ResumeClearGot(p)
    \/ ResumeCleared(p)
    \/ ResumeGot(p)
    \/ ResumeRemoved(p)
    \/ ResumeAdded(p)
    \/ ResumeSaved(p)
    \/ ResumeKeysRemoved(p)

NextBlockingFaults == FaultCommand \/ FaultHandlerStep

SpecBlockingFaults == InitBlocking /\ [][NextBlockingFaults]_vars

(***************************************************************************)
(* Mutations while focus mode is on: the behaviours start where a          *)
(* toggleFocusMode that turned focus mode on with some blocked list has    *)
(* finished, and addBlockedSite, removeBlockedSite and                     *)
(* setTemporaryOverride are then called in any interleaving.               *)
(***************************************************************************)
StartLists == {<<>>} \cup {<<d>> : d \in CleanDomains}

InitFocusOn ==
  /\ TrackerConstructed
  /\ ManagerConstructed
  /\ BrowserStarted(1)
  /\ tprocs = [p \in TProcIds |-> TIdle]
  /\ focusMode = TRUE
  /\ blockedSites \in StartLists
  /\ temporaryOverrides = NoOverrides
  /\ focusStartTime = StartClock
  /\ blockedAttempts = 0
  /\ stored = Snapshot
  /\ dynRules = CompileRules(blockedSites, NoOverrides, StartClock)
  /\ bprocs = [p \in ProcIds |-> Idle]
  /\ timers = <<>>
  /\ lastDone = NoDone
  /\ granted = [d \in CleanDomains |-> 0]
  /\ leftover = {}
  /\ faults = {}
  /\ opCount = 0
  /\ clock = StartClock
  /\ mono = 0

Mutation ==
  /\ opCount < MaxRacing
  /\ \/ \E raw \in RawDomains : StartAdd(raw)
     \/ \E raw \in RawDomains : StartRemove(raw)
     \/ \E raw \in RawDomains, duration \in Durations : StartOverride(raw, duration)

MutationStep ==
  \E p \in ProcIds :
    \/ SaveEffect(p)
    \/ GetRulesEffect(p)
    \/ RemoveRulesEffect(p)
    \/ AddRulesEffect(p)
    \/ ResumeGot(p)
    \/ ResumeRemoved(p)
    \/ ResumeAdded(p)
    \/ ResumeSaved(p)

TimerStep == \E i \in 1..Len(timers) : TimerFire(i)

NextMutations == Mutation \/ TimerStep \/ MutationStep \/ BlockingTick

SpecMutations == InitFocusOn /\ [][NextMutations]_vars


(***************************************************************************)
(* The time tracker: handlers in flight and the session's ledger.          *)
(***************************************************************************)
TFree == {p \in TProcIds : tprocs[p].op = "idle"}

\* the slot a new handler takes
TNew == CHOOSE p \in TFree : \A q \in TFree : p <= q

\* a listener can take an event
CanDeliver == TFree # {}

pauseVars == <<isSessionPaused, pausedAt, totalPausedTime>>

\* history: startTracking opens a session's ledger
Opened ==
  [state |-> "open", t0 |-> clock, t1 |-> clock, added |-> 0, visits |-> 0, calls |-> 0,
   paused |-> 0, clean |-> TRUE, jumped |-> FALSE, written |-> 0, failed |-> 0]

\* history: stopCurrentTracking has been entered, at t1
Closing(s) == IF s.state = "open" THEN [s EXCEPT !.state = "closing", !.t1 = clock] ELSE s

\* history: stopCurrentTracking has reset the session
Closed(s) ==
  IF s.state \in {"open", "closing"} THEN [Closing(s) EXCEPT !.state = "closed"] ELSE s

\* history: an entry handed to saveTimeEntry while the session is tracked
Credit(s, timeSpent, visits) ==
  IF s.state \in {"open", "closing"}
  THEN [s EXCEPT !.added = @ + timeSpent, !.visits = @ + visits, !.calls = @ + 1]
  ELSE s

\* history: chrome.storage.local has stored an entry of the tracked session
Written(s, timeSpent) ==
  IF s.state \in {"open", "closing"} THEN [s EXCEPT !.written = @ + timeSpent] ELSE s

\* history: a storage call of saveTimeEntry was rejected; a stop that fails
\* leaves the session tracked
Failed(s) ==
  IF s.state \in {"open", "closing"}
  THEN [s EXCEPT !.failed = @ + 1, !.state = "open"]
  ELSE s

\* history: a pause, a blur or a focus event reached the session
Disturbed(s) == [s EXCEPT !.clean = FALSE]

\* saveTimeEntry(domain, timeSpent, visits) is called by handler p and runs to
\* its await of chrome.storage.local.get, lines 57-60
SaveTimeEntryCalled(p, op, stage, tab, domain, timeSpent, visits, net) ==
  /\ tprocs' = [tprocs EXCEPT ![p] =
                  [op |-> op, pc |-> "get", stage |-> stage, tab |-> tab,
                   domain |-> domain, delta |-> timeSpent, visits |-> visits,
                   now |-> clock, net |-> net, read |-> EmptyStats,
                   url |-> tprocs[p].url]]
  /\ credited' = AddEntry(credited, domain, timeSpent, visits)
  /\ lastCall' = [delta |-> timeSpent, jumped |-> jumpedBack]

NoSaveCall == UNCHANGED <<credited, lastCall>>

(***************************************************************************)
(* stopCurrentTracking, lines 1736-1767.                                   *)
(***************************************************************************)
\* line 1738
StopApplies == currentSession.isActive /\ Truthy(currentSession.startTime)

\* line 1743
StopTimeSpent == clock - currentSession.startTime + currentSession.savedTime

\* a stop that persists whatever it has computed
AlwaysSaveOnStop(timeSpent, domain) == domain # NoDomain

\* line 1747
ShouldSaveOnStop(timeSpent, domain) == timeSpent > SecondMs /\ domain # NoDomain

\* line 1748
RoundedTime(timeSpent) == (timeSpent \div SecondMs) * SecondMs

StopSaves == StopApplies /\ ShouldSaveOnStop(StopTimeSpent, currentSession.domain)

\* lines 1706-1717
StartedSession(tab) ==
  [tabId |-> tab, domain |-> ExtractDomain(tabUrl[tab]), startTime |-> clock,
   savedTime |-> 0, isActive |-> TRUE]

\* lines 1706-1717 for the tab object of a chrome.tabs.onUpdated event
StartedOn(tab, url) ==
  [tabId |-> tab, domain |-> ExtractDomain(url), startTime |-> clock,
   savedTime |-> 0, isActive |-> TRUE]

(***************************************************************************)
(* saveCurrentSession, lines 1811-1840.                                    *)
(***************************************************************************)
\* line 1813
FlushApplies ==
  currentSession.isActive /\ Truthy(currentSession.startTime) /\ ~isSessionPaused

\* lines 1815-1816
NetTimeSpent == clock - currentSession.startTime - totalPausedTime

\* line 1819
FlushSaves == FlushApplies /\ NetTimeSpent >= MinuteMs

\* line 1820
MinutesToSave == (NetTimeSpent \div MinuteMs) * MinuteMs

\* a flush that moves startTime although its write was rejected
FailedFlushAdvances(session, now, net, minutes) ==
  [session EXCEPT !.startTime = now - (net - minutes)]

\* lines 1823-1827 are skipped when saveTimeEntry throws: the catch at
\* 1837-1839 leaves the session as it is
SessionAfterFailedFlush(session, now, net, minutes) == session

\* a flush that forgets to move startTime past the minutes it has saved
StartNotAdvanced(now, net, minutes) == now - net

\* lines 1825-1827: startTime = now - remainder
StartAfterFlush(now, net, minutes) == now - (net - minutes)

(***************************************************************************)
(* The tracker's listeners, up to their first await of the browser.        *)
(***************************************************************************)
\* handleTabActivated, lines 1135-1143: stopCurrentTracking, then chrome.tabs.get
TabActivated(tab) ==
  /\ CanDeliver
  /\ topCount' = topCount + 1
  /\ IF StopSaves
     THEN /\ SaveTimeEntryCalled(TNew, "activated", "stop", tab, currentSession.domain,
                                 RoundedTime(StopTimeSpent), 1, 0)
          /\ sess' = Credit(Closing(sess), RoundedTime(StopTimeSpent), 1)
          /\ UNCHANGED currentSession
     ELSE /\ tprocs' = [tprocs EXCEPT ![TNew] =
                          [TIdle EXCEPT !.op = "activated", !.pc = "tabs", !.tab = tab]]
          /\ currentSession' = IF StopApplies THEN NoSession ELSE currentSession
          /\ sess' = IF StopApplies THEN Closed(sess) ELSE sess
          /\ NoSaveCall
  /\ activeTab' = tab
  /\ UNCHANGED <<pauseVars, lastActivityTime, autoManagementEnabled, settings, stats, nextFlush,
                 jumpedBack, blockingVars, managerVars, timeVars, urlCache, tabUrl, pages,
                 redirected>>

\* handleTabRemoved, lines 1182-1192
TabRemoved(tab) ==
  /\ CanDeliver
  /\ topCount' = topCount + 1
  /\ IF currentSession.tabId = tab /\ StopSaves
     THEN /\ SaveTimeEntryCalled(TNew, "removed", "stop", tab, currentSession.domain,
                                 RoundedTime(StopTimeSpent), 1, 0)
          /\ sess' = Credit(Closing(sess), RoundedTime(StopTimeSpent), 1)
          /\ UNCHANGED <<currentSession, urlCache>>
     ELSE /\ currentSession' =
               IF currentSession.tabId = tab /\ StopApplies THEN NoSession
               ELSE currentSession
          /\ sess' = IF currentSession.tabId = tab /\ StopApplies THEN Closed(sess) ELSE sess
          /\ urlCache' = MapDelete(urlCache, tab)
          /\ UNCHANGED tprocs
          /\ NoSaveCall
  /\ UNCHANGED <<pauseVars, lastActivityTime, autoManagementEnabled, settings, stats, nextFlush,
                 jumpedBack, blockingVars, managerVars, timeVars, tabUrl, activeTab, pages,
                 redirected>>

\* line 1166: the tab of the event is the tracked one and shows another domain
DomainChanged(tab, url) ==
  currentSession.tabId = tab /\ currentSession.domain # ExtractDomain(url)

\* handleTabUpdated, lines 1156-1177, for an event with status 'complete':
\* tab has finished loading url; tab.active is true of the activated tab
TabUpdated(tab, url) ==
  /\ CanDeliver
  /\ topCount' = topCount + 1
  /\ tabUrl' = [tabUrl EXCEPT ![tab] = url]
  /\ IF tab = activeTab /\ DomainChanged(tab, url)
     THEN IF StopSaves
          THEN /\ tprocs' = [tprocs EXCEPT ![TNew] =
                               [op |-> "updated", pc |-> "get", stage |-> "stop", tab |-> tab,
                                domain |-> currentSession.domain,
                                delta |-> RoundedTime(StopTimeSpent), visits |-> 1,
                                now |-> clock, net |-> 0, read |-> EmptyStats, url |-> url]]
               /\ credited' = AddEntry(credited, currentSession.domain,
                                       RoundedTime(StopTimeSpent), 1)
               /\ lastCall' = [delta |-> RoundedTime(StopTimeSpent), jumped |-> jumpedBack]
               /\ sess' = Credit(Closing(sess), RoundedTime(StopTimeSpent), 1)
               /\ UNCHANGED currentSession
          \* stopCurrentTracking has nothing to save: startTracking(tab) follows
          ELSE /\ currentSession' =
                    IF IsTrackableUrl(url) THEN StartedOn(tab, url)
                    ELSE IF StopApplies THEN NoSession
                    ELSE currentSession
               /\ sess' = IF IsTrackableUrl(url) THEN Opened
                          ELSE IF StopApplies THEN Closed(sess)
                          ELSE sess
               /\ UNCHANGED tprocs
               /\ NoSaveCall
     ELSE /\ UNCHANGED <<currentSession, sess, tprocs>>
          /\ NoSaveCall
  /\ UNCHANGED <<pauseVars, lastActivityTime, autoManagementEnabled, settings, stats, nextFlush,
                 jumpedBack, blockingVars, managerVars, timeVars, urlCache, activeTab, pages,
                 redirected>>

\* the setInterval callback, lines 1125-1129, and saveCurrentSession up to
\* its await of saveTimeEntry
IntervalFire ==
  /\ nextFlush <= mono
  /\ nextFlush' = (mono \div SaveIntervalMs + 1) * SaveIntervalMs
  /\ IF currentSession.isActive /\ FlushSaves
     THEN /\ TFree # {}
          /\ SaveTimeEntryCalled(TNew, "interval", "flush", 0, currentSession.domain,
                                 MinutesToSave, 0, NetTimeSpent)
          /\ sess' = Credit(sess, MinutesToSave, 0)
     ELSE /\ UNCHANGED <<tprocs, sess>>
          /\ NoSaveCall
  /\ UNCHANGED <<currentSession, pauseVars, lastActivityTime, autoManagementEnabled, settings, stats,
                 jumpedBack, topCount, blockingVars, managerVars, timeVars, navVars>>

\* handleWindowFocusChanged(WINDOW_ID_NONE), lines 1199-1201, and
\* pauseTracking, lines 1772-1784
WindowBlurred ==
  /\ CanDeliver
  /\ topCount' = topCount + 1
  /\ LET totalDuration ==
           currentSession.savedTime + (clock - Num(currentSession.startTime))
     IN  IF currentSession.isActive /\ totalDuration > SecondMs
         THEN /\ SaveTimeEntryCalled(TNew, "blur", "blur", 0, currentSession.domain,
                                     totalDuration, 0, 0)
              /\ sess' = Credit(Disturbed(sess), totalDuration, 0)
              /\ UNCHANGED currentSession
         ELSE /\ currentSession' =
                   IF currentSession.isActive
                   THEN [currentSession EXCEPT !.savedTime = 0, !.isActive = FALSE,
                                               !.startTime = Null]
                   ELSE currentSession
              /\ sess' = Disturbed(sess)
              /\ UNCHANGED tprocs
              /\ NoSaveCall
  /\ UNCHANGED <<pauseVars, lastActivityTime, autoManagementEnabled, settings, stats, nextFlush,
                 jumpedBack, blockingVars, managerVars, timeVars, navVars>>

\* handleWindowFocusChanged(windowId), lines 1202-1204: chrome.tabs.query
WindowFocused(tab) ==
  /\ CanDeliver
  /\ topCount' = topCount + 1
  /\ tprocs' = [tprocs EXCEPT ![TNew] =
                  [TIdle EXCEPT !.op = "focus", !.pc = "tabs", !.tab = tab]]
  /\ sess' = Disturbed(sess)
  /\ NoSaveCall
  /\ UNCHANGED <<currentSession, pauseVars, lastActivityTime, autoManagementEnabled, settings, stats,
                 nextFlush, jumpedBack, blockingVars, managerVars, timeVars, navVars>>

\* handleEnhancedActivityDetected, lines 1905-1930, with updateActivity
\* (1935-1944), resumeSession (1969-1982) and pauseSession (1949-1964) up to
\* the await of saveTimeEntry in saveCurrentSession
ActivityDetected(active, timeSinceLastActivity) ==
  /\ CanDeliver
  /\ topCount' = topCount + 1
  /\ lastActivityTime' = clock
  /\ LET resumes == active /\ isSessionPaused /\ autoManagementEnabled
         pauses  == /\ ~active /\ autoManagementEnabled /\ ~isSessionPaused
                    /\ timeSinceLastActivity > InactivityThresholdMs
                    /\ currentSession.isActive
         pausedDuration == IF Truthy(pausedAt) THEN clock - pausedAt ELSE 0
     IN  IF resumes
         THEN /\ totalPausedTime' = totalPausedTime + pausedDuration
              /\ isSessionPaused' = FALSE
              /\ pausedAt' = Null
              /\ sess' = IF sess.state \in {"open", "closing"}
                         THEN [Disturbed(sess) EXCEPT !.paused = @ + pausedDuration]
                         ELSE sess
              /\ UNCHANGED tprocs
              /\ NoSaveCall
         ELSE IF pauses /\ FlushSaves
         THEN /\ SaveTimeEntryCalled(TNew, "activity", "flush", 0, currentSession.domain,
                                     MinutesToSave, 0, NetTimeSpent)
              /\ sess' = Credit(Disturbed(sess), MinutesToSave, 0)
              /\ UNCHANGED pauseVars
         ELSE IF pauses
         THEN /\ isSessionPaused' = TRUE
              /\ pausedAt' = clock
              /\ totalPausedTime' = 0
              /\ sess' = Disturbed(sess)
              /\ UNCHANGED tprocs
              /\ NoSaveCall
         ELSE /\ UNCHANGED <<pauseVars, tprocs, sess>>
              /\ NoSaveCall
  /\ UNCHANGED <<currentSession, autoManagementEnabled, settings, stats, nextFlush, jumpedBack,
                 blockingVars, managerVars, timeVars, navVars>>

\* the ENHANCED_ACTIVITY_DETECTED case of handleMessage, lines 1267-1270: the
\* content script of tab sender sent the report; the handler is called
\* with message.payload alone
EnhancedActivityMessage(sender, active, timeSinceLastActivity) ==
  /\ sender \in Tabs
  /\ ActivityDetected(active, timeSinceLastActivity)

\* ACTIVITY_HEARTBEAT, lines 1272-1275: updateActivity(payload), 1935-1944,
\* with the resumeSession it calls, 1969-1982; the payload's isActive is the
\* content script's this.isActive
Heartbeat(active) ==
  /\ CanDeliver
  /\ topCount' = topCount + 1
  /\ lastActivityTime' = clock
  /\ LET pausedDuration == IF Truthy(pausedAt) THEN clock - pausedAt ELSE 0
     IN  IF active /\ isSessionPaused /\ autoManagementEnabled
         THEN /\ totalPausedTime' = totalPausedTime + pausedDuration
              /\ isSessionPaused' = FALSE
              /\ pausedAt' = Null
              /\ sess' = IF sess.state \in {"open", "closing"}
                         THEN [Disturbed(sess) EXCEPT !.paused = @ + pausedDuration]
                         ELSE sess
         ELSE UNCHANGED <<pauseVars, sess>>
  /\ NoSaveCall
  /\ UNCHANGED <<currentSession, tprocs, autoManagementEnabled, settings, stats, nextFlush,
                 jumpedBack, blockingVars, managerVars, timeVars, navVars>>

\* TOGGLE_AUTO_MANAGEMENT, lines 1282-1286: setAutoManagement (2003-2017) up to
\* its await of getSettings
ToggleAutoManagement(enabled) ==
  /\ CanDeliver
  /\ topCount' = topCount + 1
  /\ autoManagementEnabled' = enabled
  /\ tprocs' = [tprocs EXCEPT ![TNew] =
                  [TIdle EXCEPT !.op = "auto", !.pc = "getSettings",
                                !.stage = IF enabled THEN "enable" ELSE "disable"]]
  /\ NoSaveCall
  /\ UNCHANGED <<currentSession, pauseVars, lastActivityTime, settings, stats, nextFlush,
                 sess, jumpedBack, blockingVars, managerVars, timeVars, navVars>>

\* the system clock is set back: Date.now() drops, the timers do not notice
ClockJump ==
  /\ ~jumpedBack
  /\ topCount' = topCount + 1
  /\ clock' = clock - JumpBackMs
  /\ jumpedBack' = TRUE
  /\ sess' = [Disturbed(sess) EXCEPT !.jumped = TRUE]
  /\ UNCHANGED <<currentSession, pauseVars, lastActivityTime, autoManagementEnabled, settings, stats,
                 tprocs, nextFlush, credited, lastCall, mono, blockingVars, managerVars, navVars>>

(***************************************************************************)
(* The browser answers, and the handler runs on to its next await.         *)
(***************************************************************************)
\* chrome.storage.local.get(['stats']) of saveTimeEntry is answered, line 60;
\* the handler computes the entry (61-95) and calls chrome.storage.local.set
StatsGet(p) ==
  /\ tprocs[p].pc = "get"
  /\ tprocs' = [tprocs EXCEPT ![p].read = stats, ![p].pc = "set"]
  /\ UNCHANGED <<currentSession, pauseVars, lastActivityTime, autoManagementEnabled, settings, stats,
                 nextFlush, sess, credited, lastCall, jumpedBack, topCount, blockingVars, managerVars,
                 timeVars, navVars>>

\* chrome.storage.local.set({stats}) of saveTimeEntry, lines 98-103; the
\* handler goes on to chrome.runtime.sendMessage, 106-115
StatsSet(p) ==
  /\ tprocs[p].pc = "set"
  /\ stats' = AddEntry(tprocs[p].read, tprocs[p].domain, tprocs[p].delta, tprocs[p].visits)
  /\ tprocs' = [tprocs EXCEPT ![p].pc = "msg"]
  /\ sess' = Written(sess, tprocs[p].delta)
  /\ UNCHANGED <<currentSession, pauseVars, lastActivityTime, autoManagementEnabled, settings,
                 nextFlush, credited, lastCall, jumpedBack, topCount, blockingVars, managerVars,
                 timeVars, navVars>>

\* saveTimeEntry returns to stopCurrentTracking, lines 1753-1763, called by
\* handleTabRemoved, first thing by handleTabActivated, or by handleTabUpdated,
\* which goes straight on to startTracking(tab), line 1169
AfterStop(p) ==
  /\ tprocs[p].pc = "msg"
  /\ tprocs[p].stage = "stop"
  /\ currentSession' =
       IF tprocs[p].op = "updated" /\ IsTrackableUrl(tprocs[p].url)
       THEN StartedOn(tprocs[p].tab, tprocs[p].url)
       ELSE NoSession
  /\ sess' = IF tprocs[p].op = "updated" /\ IsTrackableUrl(tprocs[p].url)
             THEN Opened
             ELSE Closed(sess)
  /\ tprocs' = [tprocs EXCEPT ![p] =
                  IF tprocs[p].op = "activated"
                  THEN [TIdle EXCEPT !.op = "activated", !.pc = "tabs", !.tab = tprocs[p].tab]
                  ELSE TIdle]
  \* handleTabRemoved goes on to urlCache.delete(tabId), line 1188
  /\ urlCache' = IF tprocs[p].op = "removed" THEN MapDelete(urlCache, tprocs[p].tab)
                 ELSE urlCache
  /\ UNCHANGED <<pauseVars, lastActivityTime, autoManagementEnabled, settings, stats, nextFlush,
                 credited, lastCall, jumpedBack, topCount, blockingVars, managerVars, timeVars,
                 tabUrl, activeTab, pages, redirected>>

\* chrome.tabs.get (handleTabActivated, 1143-1147) or chrome.tabs.query
\* (startTrackingCurrentTab, 1887-1893) is answered: startTracking, 1688-1731
EnterStartTracking(p) ==
  /\ tprocs[p].pc = "tabs"
  /\ tprocs[p].op \in {"activated", "init"}
  /\ IF ~IsTrackableUrl(tabUrl[tprocs[p].tab])
     THEN /\ tprocs' = [tprocs EXCEPT ![p] = TIdle]
          /\ UNCHANGED <<currentSession, sess>>
          /\ NoSaveCall
     ELSE IF currentSession.isActive /\ StopSaves
     THEN /\ SaveTimeEntryCalled(p, tprocs[p].op, "restop", tprocs[p].tab,
                                 currentSession.domain, RoundedTime(StopTimeSpent), 1, 0)
          /\ sess' = Credit(Closing(sess), RoundedTime(StopTimeSpent), 1)
          /\ UNCHANGED currentSession
     ELSE /\ currentSession' = StartedSession(tprocs[p].tab)
          /\ sess' = Opened
          /\ tprocs' = [tprocs EXCEPT ![p] = TIdle]
          /\ NoSaveCall
  /\ UNCHANGED <<pauseVars, lastActivityTime, autoManagementEnabled, settings, stats, nextFlush,
                 jumpedBack, topCount, blockingVars, managerVars, timeVars, navVars>>

\* saveTimeEntry returns to the stopCurrentTracking that startTracking
\* awaits (1702-1704): the session is reset and the new one begins
AfterRestop(p) ==
  /\ tprocs[p].pc = "msg"
  /\ tprocs[p].stage = "restop"
  /\ currentSession' = StartedSession(tprocs[p].tab)
  /\ sess' = Opened
  /\ tprocs' = [tprocs EXCEPT ![p] = TIdle]
  /\ UNCHANGED <<pauseVars, lastActivityTime, autoManagementEnabled, settings, stats, nextFlush,
                 credited, lastCall, jumpedBack, topCount, blockingVars, managerVars, timeVars,
                 navVars>>

\* saveTimeEntry returns to saveCurrentSession, lines 1823-1828, and that to
\* the interval callback or to pauseSession, lines 1959-1963
AfterFlush(p) ==
  /\ tprocs[p].pc = "msg"
  /\ tprocs[p].stage = "flush"
  /\ currentSession' =
       [currentSession EXCEPT
          !.savedTime = @ + tprocs[p].delta,
          !.startTime = StartAfterFlush(tprocs[p].now, tprocs[p].net, tprocs[p].delta)]
  /\ totalPausedTime' = 0
  /\ IF tprocs[p].op = "activity"
     THEN isSessionPaused' = TRUE /\ pausedAt' = clock
     ELSE UNCHANGED <<isSessionPaused, pausedAt>>
  /\ tprocs' = [tprocs EXCEPT ![p] = TIdle]
  /\ UNCHANGED <<lastActivityTime, autoManagementEnabled, settings, stats, nextFlush, sess, credited,
                 lastCall, jumpedBack, topCount, blockingVars, managerVars, timeVars, navVars>>

\* saveTimeEntry returns to pauseTracking, lines 1779-1782
AfterBlurSave(p) ==
  /\ tprocs[p].pc = "msg"
  /\ tprocs[p].stage = "blur"
  /\ currentSession' =
       [currentSession EXCEPT !.savedTime = 0, !.isActive = FALSE, !.startTime = Null]
  /\ tprocs' = [tprocs EXCEPT ![p] = TIdle]
  /\ UNCHANGED <<pauseVars, lastActivityTime, autoManagementEnabled, settings, stats, nextFlush, sess,
                 credited, lastCall, jumpedBack, topCount, blockingVars, managerVars, timeVars,
                 navVars>>

\* a resume that marks the session active and leaves startTime as it is
ResumedWithoutStart(session) == [session EXCEPT !.isActive = TRUE]

\* resumeTracking, lines 1791-1792
ResumedSession(session) == [session EXCEPT !.startTime = clock, !.isActive = TRUE]

\* chrome.tabs.query of handleWindowFocusChanged is answered: resumeTracking,
\* lines 1789-1794
FocusAnswered(p) ==
  /\ tprocs[p].pc = "tabs"
  /\ tprocs[p].op = "focus"
  /\ currentSession' =
       IF ~currentSession.isActive /\ IsTrackableUrl(tabUrl[tprocs[p].tab])
       THEN ResumedSession(currentSession)
       ELSE currentSession
  /\ tprocs' = [tprocs EXCEPT ![p] = TIdle]
  /\ UNCHANGED <<pauseVars, lastActivityTime, autoManagementEnabled, settings, stats, nextFlush, sess,
                 credited, lastCall, jumpedBack, topCount, blockingVars, managerVars, timeVars,
                 navVars>>

\* chrome.storage.local.get(['settings']) of getSettings is answered, line
\* 175; setAutoManagement sets the key and calls saveSettings, 2007-2009
SettingsGot(p) ==
  /\ tprocs[p].pc = "getSettings"
  /\ tprocs' = [tprocs EXCEPT ![p].pc = "saveSettings"]
  /\ UNCHANGED <<currentSession, pauseVars, lastActivityTime, autoManagementEnabled, settings, stats,
                 nextFlush, sess, credited, lastCall, jumpedBack, topCount, blockingVars,
                 managerVars, timeVars, navVars>>

\* chrome.storage.local.set({settings}) of saveSettings, line 180, and the
\* rest of setAutoManagement, 2013-2016: a disable resumes a paused session
SettingsSaved(p) ==
  /\ tprocs[p].pc = "saveSettings"
  /\ settings' = [settings EXCEPT !.autoSessionManagement =
                    IF tprocs[p].stage = "enable" THEN "true" ELSE "false"]
  /\ LET pausedDuration == IF Truthy(pausedAt) THEN clock - pausedAt ELSE 0
     IN  IF tprocs[p].stage = "disable" /\ isSessionPaused
         THEN /\ totalPausedTime' = totalPausedTime + pausedDuration
              /\ isSessionPaused' = FALSE
              /\ pausedAt' = Null
              /\ lastActivityTime' = clock
              /\ sess' = IF sess.state \in {"open", "closing"}
                         THEN [Disturbed(sess) EXCEPT !.paused = @ + pausedDuration]
                         ELSE sess
         ELSE UNCHANGED <<pauseVars, lastActivityTime, sess>>
  /\ tprocs' = [tprocs EXCEPT ![p] = TIdle]
  /\ UNCHANGED <<currentSession, autoManagementEnabled, stats, nextFlush, credited, lastCall,
                 jumpedBack, topCount, blockingVars, managerVars, timeVars, navVars>>

\* chrome.storage.local rejects the get (line 60) or the set (98-103) of
\* saveTimeEntry, which rethrows (120-123).  saveCurrentSession (1837-1839)
\* and stopCurrentTracking (1764-1766) catch and return, and their callers
\* go on; pauseTracking lets it through to the catch of
\* handleWindowFocusChanged (1209-1211).
StatsFails(p) ==
  /\ tprocs[p].pc \in {"get", "set"}
  /\ currentSession' =
       CASE tprocs[p].stage = "flush" ->
              SessionAfterFailedFlush(currentSession, tprocs[p].now, tprocs[p].net,
                                      tprocs[p].delta)
         [] tprocs[p].stage = "restop" -> StartedSession(tprocs[p].tab)
         [] OTHER -> currentSession
  /\ sess' = IF tprocs[p].stage = "restop" THEN Opened ELSE Failed(sess)
  \* pauseSession goes on after saveCurrentSession, lines 1959-1963
  /\ IF tprocs[p].stage = "flush" /\ tprocs[p].op = "activity"
     THEN isSessionPaused' = TRUE /\ pausedAt' = clock /\ totalPausedTime' = 0
     ELSE UNCHANGED pauseVars
  /\ tprocs' = [tprocs EXCEPT ![p] =
                  IF tprocs[p].stage = "stop" /\ tprocs[p].op = "activated"
                  THEN [TIdle EXCEPT !.op = "activated", !.pc = "tabs", !.tab = tprocs[p].tab]
                  ELSE TIdle]
  /\ urlCache' = IF tprocs[p].stage = "stop" /\ tprocs[p].op = "removed"
                 THEN MapDelete(urlCache, tprocs[p].tab)
                 ELSE urlCache
  /\ UNCHANGED <<lastActivityTime, autoManagementEnabled, settings, stats, nextFlush, credited,
                 lastCall, jumpedBack, topCount, focusMode, blockedSites, temporaryOverrides,
                 focusStartTime, blockedAttempts, stored, dynRules, bprocs, timers, lastDone,
                 granted, leftover, faults, opCount, managerVars, timeVars, tabUrl, activeTab, pages,
                 redirected>>

\* chrome.storage.local rejects the get or the set: setAutoManagement throws
\* and handleMessage answers success: false, lines 1663-1666
SettingsFailed(p) ==
  /\ tprocs[p].pc \in {"getSettings", "saveSettings"}
  /\ tprocs' = [tprocs EXCEPT ![p] = TIdle]
  /\ UNCHANGED <<currentSession, pauseVars, lastActivityTime, autoManagementEnabled, settings, stats,
                 nextFlush, sess, credited, lastCall, jumpedBack, topCount, blockingVars,
                 managerVars, timeVars, navVars>>

\* time passes; history counts it among the events
TrackerTick ==
  /\ Tick(TrackerTickMs)
  /\ topCount' = topCount + 1
  /\ UNCHANGED <<currentSession, pauseVars, lastActivityTime, autoManagementEnabled, settings, stats,
                 tprocs, nextFlush, sess, credited, lastCall, jumpedBack, blockingVars,
                 managerVars, navVars>>

(***************************************************************************)
(* The time tracker: the worker has started, initialize() waits for the    *)
(* active tab (startTrackingCurrentTab), and events arrive at any moment.  *)
(***************************************************************************)
InitTracker ==
  /\ focusMode = FALSE
  /\ blockedSites = <<>>
  /\ temporaryOverrides = NoOverrides
  /\ focusStartTime = Null
  /\ blockedAttempts = 0
  /\ stored = DefaultStore
  /\ dynRules = {}
  /\ bprocs = [p \in ProcIds |-> Idle]
  /\ timers = <<>>
  /\ lastDone = NoDone
  /\ granted = [d \in CleanDomains |-> 0]
  /\ leftover = {}
  /\ faults = {}
  /\ opCount = 0
  /\ clock = StartClock
  /\ mono = 0
  /\ TrackerConstructed
  /\ ManagerConstructed
  /\ \E tab \in Tabs :
       /\ BrowserStarted(tab)
       /\ tprocs = [p \in TProcIds |->
                      IF p = 1 THEN [TIdle EXCEPT !.op = "init", !.pc = "tabs", !.tab = tab]
                      ELSE TIdle]

TabEvent ==
  \/ \E tab \in Tabs : TabActivated(tab)
  \/ \E tab \in Tabs : TabRemoved(tab)

WindowEvent ==
  \/ WindowBlurred
  \/ \E tab \in Tabs : WindowFocused(tab)

ActivityEvent ==
  \/ \E sender \in Tabs : EnhancedActivityMessage(sender, TRUE, 0)
  \/ \E sender \in Tabs, ms \in InactiveFor : EnhancedActivityMessage(sender, FALSE, ms)
  \/ \E active \in BOOLEAN : Heartbeat(active)

AutoEvent == \E enabled \in BOOLEAN : ToggleAutoManagement(enabled)

TrackerStep ==
  \E p \in TProcIds :
    \/ StatsGet(p)
    \/ StatsSet(p)
    \/ AfterStop(p)
    \/ EnterStartTracking(p)
    \/ AfterRestop(p)
    \/ AfterFlush(p)
    \/ AfterBlurSave(p)
    \/ FocusAnswered(p)
    \/ SettingsGot(p)
    \/ SettingsSaved(p)
    \/ SettingsFailed(p)

TrackerEvent ==
  /\ topCount < MaxTrackerOps
  /\ (TabEvent \/ WindowEvent \/ ActivityEvent \/ AutoEvent \/ ClockJump \/ TrackerTick)

NextTracker == TrackerEvent \/ IntervalFire \/ TrackerStep

SpecTracker == InitTracker /\ [][NextTracker]_vars

(***************************************************************************)
(* Sequential use of the tracker: an event or an interval callback arrives *)
(* only when no handler is in flight.  Time passes at any moment.          *)
(***************************************************************************)
TQuiet == TFree = TProcIds

SeqTrackerEvent ==
  /\ TQuiet
  /\ topCount < MaxSeqEvents
  /\ (TabEvent \/ WindowEvent \/ ActivityEvent \/ AutoEvent \/ ClockJump)

SeqTrackerTick == topCount < MaxSeqEvents /\ TrackerTick

SeqIntervalFire == TQuiet /\ IntervalFire

SeqTrackerStep ==
  \E p \in TProcIds :
    \/ StatsGet(p)
    \/ StatsSet(p)
    \/ AfterStop(p)
    \/ EnterStartTracking(p)
    \/ AfterFlush(p)
    \/ AfterBlurSave(p)
    \/ FocusAnswered(p)
    \/ SettingsGot(p)
    \/ SettingsSaved(p)
    \/ SettingsFailed(p)

NextTrackerSeq == SeqTrackerEvent \/ SeqIntervalFire \/ SeqTrackerStep \/ SeqTrackerTick

SpecTrackerSeq == InitTracker /\ [][NextTrackerSeq]_vars

(***************************************************************************)
(* Tab activations alone: once startTrackingCurrentTab has finished, the   *)
(* user switches tabs at any moment, also while the handler of an earlier  *)
(* activation waits for the browser.                                       *)
(***************************************************************************)
InitFinished == \A p \in TProcIds : tprocs[p].op # "init"

ActivationEvent ==
  /\ InitFinished
  /\ topCount < MaxSeqEvents
  /\ \E tab \in Tabs : TabActivated(tab)

ActivationTick == topCount < MaxSeqEvents /\ TrackerTick

ActivationStep ==
  \E p \in TProcIds :
    \/ StatsGet(p)
    \/ StatsSet(p)
    \/ AfterStop(p)
    \/ EnterStartTracking(p)
    \/ AfterRestop(p)
    \/ AfterFlush(p)

NextActivations == ActivationEvent \/ ActivationTick \/ IntervalFire \/ ActivationStep

SpecActivations == InitTracker /\ [][NextActivations]_vars

(***************************************************************************)
(* Pages load in the tabs: the user switches tabs and navigates, one       *)
(* handler at a time.                                                      *)
(***************************************************************************)
\* the URLs a tab may finish loading: two domains and a browser page
LoadedUrls == {SiteUrl, SubdomainUrl, NewTabUrl}

UpdateEvent ==
  /\ TQuiet
  /\ topCount < MaxSeqEvents
  /\ \/ \E tab \in Tabs : TabActivated(tab)
     \/ \E tab \in Tabs, url \in LoadedUrls : TabUpdated(tab, url)

UpdateStep ==
  \E p \in TProcIds :
    \/ StatsGet(p)
    \/ StatsSet(p)
    \/ AfterStop(p)
    \/ EnterStartTracking(p)
    \/ AfterFlush(p)

NextTabUpdates == UpdateEvent \/ SeqIntervalFire \/ UpdateStep \/ SeqTrackerTick

SpecTabUpdates == InitTracker /\ [][NextTabUpdates]_vars

(***************************************************************************)
(* Tab events, window focus changes and the periodic flush, with handlers  *)
(* that overlap: an event arrives whenever a listener can take it.         *)
(***************************************************************************)
OverlapEvent ==
  /\ topCount < MaxOverlapEvents
  /\ (TabEvent \/ WindowEvent)

OverlapStep ==
  \E p \in TProcIds :
    \/ StatsGet(p)
    \/ StatsSet(p)
    \/ AfterStop(p)
    \/ EnterStartTracking(p)
    \/ AfterRestop(p)
    \/ AfterFlush(p)
    \/ AfterBlurSave(p)
    \/ FocusAnswered(p)

\* time passes; it is not counted among the events
OverlapTick ==
  /\ mono < MaxOverlapTicks * (2 * TrackerTickMs)
  /\ clock' = clock + 2 * TrackerTickMs
  /\ mono' = mono + 2 * TrackerTickMs
  /\ UNCHANGED <<currentSession, pauseVars, lastActivityTime, autoManagementEnabled, settings, stats,
                 tprocs, nextFlush, sess, credited, lastCall, jumpedBack, topCount, blockingVars,
                 managerVars, navVars>>

NextOverlap == OverlapEvent \/ IntervalFire \/ OverlapStep \/ OverlapTick

SpecOverlap == InitTracker /\ [][NextOverlap]_vars

(***************************************************************************)
(* Sequential use of the tracker while chrome.storage.local may reject     *)
(* any call of saveTimeEntry: tab events and the interval callback.        *)
(***************************************************************************)
FaultyTrackerEvent ==
  /\ TQuiet
  /\ topCount < MaxSeqEvents
  /\ TabEvent

FaultyTrackerStep ==
  \E p \in TProcIds :
    \/ StatsGet(p)
    \/ StatsSet(p)
    \/ StatsFails(p)
    \/ AfterStop(p)
    \/ EnterStartTracking(p)
    \/ AfterRestop(p)
    \/ AfterFlush(p)

\* time passes: three steps reach the interval callback after the one at 65 s
FaultyTrackerTick ==
  /\ topCount < MaxSeqEvents
  /\ mono < MaxFaultTicks * TrackerTickMs
  /\ clock' = clock + TrackerTickMs
  /\ mono' = mono + TrackerTickMs
  /\ topCount' = topCount + 1
  /\ UNCHANGED <<currentSession, pauseVars, lastActivityTime, autoManagementEnabled, settings, stats,
                 tprocs, nextFlush, sess, credited, lastCall, jumpedBack, blockingVars,
                 managerVars, navVars>>

NextTrackerFaults ==
  FaultyTrackerEvent \/ SeqIntervalFire \/ FaultyTrackerStep \/ FaultyTrackerTick

SpecTrackerFaults == InitTracker /\ [][NextTrackerFaults]_vars

(***************************************************************************)
(* StorageManager.saveTimeEntry taken alone: calls with any domain, time   *)
(* and visit count, overlapping at their awaits.                           *)
(***************************************************************************)
\* the domains saveTimeEntry is called with, and its two kinds of call: the
\* seconds of a stopped session with one visit (line 1749), whole minutes
\* with no visit (1777, 1821)
SavedDomains == {<<"x", ".", "i", "o">>, <<"y", ".", "i", "o">>}
SavedEntries ==
  {[timeSpent |-> 2 * SecondMs, visits |-> 1], [timeSpent |-> MinuteMs, visits |-> 0]}

\* saveTimeEntry(domain, timeSpent, visits) up to its await of
\* chrome.storage.local.get, lines 57-60
SaveTimeEntry(domain, timeSpent, visits) ==
  /\ CanDeliver
  /\ topCount < MaxSaves
  /\ topCount' = topCount + 1
  /\ SaveTimeEntryCalled(TNew, "save", "none", 0, domain, timeSpent, visits, 0)
  /\ UNCHANGED <<currentSession, pauseVars, lastActivityTime, autoManagementEnabled, settings, stats,
                 nextFlush, sess, jumpedBack, blockingVars, managerVars, timeVars, navVars>>

\* chrome.runtime.sendMessage is answered or fails, lines 106-115, and
\* saveTimeEntry returns the entry, line 117
SaveTimeEntryReturned(p) ==
  /\ tprocs[p].pc = "msg"
  /\ tprocs[p].op = "save"
  /\ tprocs' = [tprocs EXCEPT ![p] = TIdle]
  /\ UNCHANGED <<currentSession, pauseVars, lastActivityTime, autoManagementEnabled, settings, stats,
                 nextFlush, sess, credited, lastCall, jumpedBack, topCount, blockingVars,
                 managerVars, timeVars, navVars>>

InitSaves == InitBlocking

SaveCall ==
  \E domain \in SavedDomains, e \in SavedEntries :
    SaveTimeEntry(domain, e.timeSpent, e.visits)

SaveStep == \E p \in TProcIds : StatsGet(p) \/ StatsSet(p) \/ SaveTimeEntryReturned(p)

NextSaves == SaveCall \/ SaveStep

SpecSaves == InitSaves /\ [][NextSaves]_vars

(***************************************************************************)
(* Navigation: webNavigation.onBeforeNavigate caches the URL, the          *)
(* browser applies the dynamic rules, and the blocked page (src/blocked.js)*)
(* asks the worker for the cached URL and for the focus status.            *)
(***************************************************************************)
\* the URLs the tabs navigate to
NavUrls == {SiteUrl, SubdomainUrl}

\* blocked.js line 19: cachedUrl || urlParams.get('url') || 'Unknown Site'
UnknownSite == <<"U", "n", "k", "n", "o", "w", "n", " ", "S", "i", "t", "e">>

\* a pattern with '*' wildcards matches the whole of s
RECURSIVE GlobMatch(_, _)
GlobMatch(pattern, s) ==
  IF pattern = <<>> THEN s = <<>>
  ELSE IF Head(pattern) = "*"
       THEN GlobMatch(Tail(pattern), s) \/ (s # <<>> /\ GlobMatch(pattern, Tail(s)))
       ELSE s # <<>> /\ Head(s) = Head(pattern) /\ GlobMatch(Tail(pattern), Tail(s))

\* a urlFilter without anchors matches anywhere in the URL
FilterMatches(urlFilter, url) == GlobMatch(<<"*">> \o urlFilter \o <<"*">>, url)

\* a main-frame request for url meets an installed redirect rule
Redirects(url) == \E r \in dynRules : FilterMatches(r.urlFilter, url)

\* the hostnames of the URLs the tabs navigate to
Hostnames == {Hostname(url) : url \in NavUrls}

\* the URL of a main-frame navigation to hostname h
UrlOf(h) == HttpsPrefix \o h \o <<"/", "p">>

\* cacheUrl, lines 907-915
CacheUrl(cache, tab, url) ==
  IF /\ focusMode
     /\ url # <<>>
     /\ ~StartsWith(url, <<"c", "h", "r", "o", "m", "e", "-", "e", "x", "t", "e", "n", "s",
                           "i", "o", "n", ":", "/", "/">>)
     /\ ~StartsWith(url, <<"c", "h", "r", "o", "m", "e", ":", "/", "/">>)
     /\ CleanDomain(url) \in Members(blockedSites)
     /\ CleanDomain(url) \notin DOMAIN temporaryOverrides
  THEN MapSet(cache, tab, url)
  ELSE cache

\* the tab requests url: onBeforeNavigate runs cacheUrl on the given cache,
\* then the request is redirected to the blocked page or the URL is shown
NavigationEffect(cache, tab, url) ==
  /\ urlCache' = CacheUrl(cache, tab, url)
  /\ IF Redirects(url)
     THEN /\ tabUrl' = [tabUrl EXCEPT ![tab] = BlockedPageUrl]
          /\ pages' = [pages EXCEPT ![tab] = [pc |-> "loading", url |-> <<>>]]
          /\ redirected' = [redirected EXCEPT ![tab] = url]
     ELSE /\ tabUrl' = [tabUrl EXCEPT ![tab] = url]
          /\ pages' = [pages EXCEPT ![tab] = NoPage]
          /\ UNCHANGED redirected

\* the user opens url in the tab
Navigate(tab, url) ==
  /\ topCount < MaxNavEvents
  /\ topCount' = topCount + 1
  /\ NavigationEffect(urlCache, tab, url)
  /\ UNCHANGED <<currentSession, pauseVars, lastActivityTime, autoManagementEnabled, settings, stats,
                 tprocs, nextFlush, sess, credited, lastCall, jumpedBack, activeTab,
                 blockingVars, managerVars, timeVars>>

\* the user reloads the blocked page: onBeforeNavigate passes its
\* chrome-extension: URL to cacheUrl, which ignores it, and the script starts
PageReloaded(tab) ==
  /\ topCount < MaxNavEvents
  /\ topCount' = topCount + 1
  /\ pages[tab].pc = "shown"
  /\ pages' = [pages EXCEPT ![tab] = [pc |-> "reloading", url |-> <<>>]]
  /\ UNCHANGED <<currentSession, pauseVars, lastActivityTime, autoManagementEnabled, settings, stats,
                 tprocs, nextFlush, sess, credited, lastCall, jumpedBack, urlCache, tabUrl,
                 activeTab, redirected, blockingVars, managerVars, timeVars>>

\* GET_CACHED_URL is answered (background.js 1469-1472, getCachedUrl
\* 920-924); blocked.js 13-23
PageGetsCachedUrl(tab) ==
  /\ pages[tab].pc \in {"loading", "reloading"}
  /\ pages' = [pages EXCEPT ![tab] =
                 [pc |-> "asked",
                  url |-> IF tab \in DOMAIN urlCache THEN urlCache[tab] ELSE UnknownSite]]
  /\ UNCHANGED <<urlCache, tabUrl, activeTab, redirected, blockingVars, trackerVars,
                 managerVars, timeVars>>

\* blocked.js extractDomain, lines 230-237, of the page's URLs
PageExtractDomain(url) ==
  IF StartsWith(url, HttpsPrefix) \/ StartsWith(url, HttpPrefix)
  THEN RemoveFirst(Hostname(url), WwwPrefix)
  ELSE url

\* where the page goes by itself when focus mode is off, blocked.js 30-46: to
\* the original URL, else to the home page of its domain, else nowhere
AutoRedirectTarget(url) ==
  IF url # <<>> /\ url # UnknownSite THEN url
  ELSE IF PageExtractDomain(url) # <<>> /\ PageExtractDomain(url) # UnknownSite
       THEN HttpsPrefix \o PageExtractDomain(url)
       ELSE <<>>

\* GET_FOCUS_STATUS is answered (background.js 1651-1658); blocked.js 27-63:
\* with focus mode off the page asks for CLEAR_CACHED_URL, else it shows the
\* block screen
PageGetsFocusStatus(tab) ==
  /\ pages[tab].pc = "asked"
  /\ pages' = [pages EXCEPT ![tab].pc =
                 IF ~focusMode /\ AutoRedirectTarget(pages[tab].url) # <<>>
                 THEN "clearing" ELSE "shown"]
  /\ UNCHANGED <<urlCache, tabUrl, activeTab, redirected, blockingVars, trackerVars,
                 managerVars, timeVars>>

\* CLEAR_CACHED_URL is answered (background.js 1488-1491, clearCachedUrl
\* 929-932) and the page sets window.location.href, blocked.js 34-35, 41-42
PageLeaves(tab) ==
  /\ pages[tab].pc = "clearing"
  /\ NavigationEffect(MapDelete(urlCache, tab), tab, AutoRedirectTarget(pages[tab].url))
  /\ UNCHANGED <<activeTab, blockingVars, trackerVars, managerVars, timeVars>>

NavCommand ==
  /\ NoneInFlight
  /\ opCount < MaxOps
  /\ \/ StartToggle
     \/ StartAdd(ExtractDomain(SiteUrl))

NavEvent ==
  \/ \E tab \in Tabs, url \in NavUrls : Navigate(tab, url)
  \/ \E tab \in Tabs : PageReloaded(tab)
  \/ \E tab \in Tabs : topCount < MaxNavEvents /\ TabRemoved(tab)

PageStep ==
  \E tab \in Tabs :
    \/ PageGetsCachedUrl(tab)
    \/ PageGetsFocusStatus(tab)
    \/ PageLeaves(tab)

NextNavigation == NavCommand \/ Restart \/ HandlerStep \/ NavEvent \/ PageStep

\* focus mode is on with the domain of SiteUrl blocked and its rules installed
InitNavigation == InitFocusOn /\ blockedSites = <<ExtractDomain(SiteUrl)>>

SpecNavigation == InitNavigation /\ [][NextNavigation]_vars

(***************************************************************************)
(* Recompilations for another domain: focus mode is on with the domain of  *)
(* SiteUrl blocked and its rules installed; addBlockedSite and             *)
(* removeBlockedSite are called for another domain, one at a time, and the *)
(* browser may reject any call.                                            *)
(***************************************************************************)
\* the domain the mutations are about
OtherDomain == <<"y", ".", "i", "o">>

RecompileCommand ==
  /\ NoneInFlight
  /\ opCount < MaxOps
  /\ (StartAdd(OtherDomain) \/ StartRemove(OtherDomain))

RecompileStep ==
  \E p \in ProcIds :
    \/ SaveEffect(p)
    \/ GetRulesEffect(p)
    \/ RemoveRulesEffect(p)
    \/ AddRulesEffect(p)
    \/ ApiFails(p)
    \/ ResumeGot(p)
    \/ ResumeRemoved(p)
    \/ ResumeAdded(p)
    \/ ResumeSaved(p)

NextRecompile == RecompileCommand \/ RecompileStep

SpecRecompile == InitNavigation /\ [][NextRecompile]_vars

(***************************************************************************)
(* Override timers: focus mode is on with the domain of SiteUrl blocked.   *)
(* The blocked page asks for an override of a domain that is blocked; the  *)
(* domain is removed or added again, or the blocking state is reset; time  *)
(* passes and the setTimeout callbacks run.  One handler at a time.        *)
(***************************************************************************)
TimerCommand ==
  /\ NoneInFlight
  /\ opCount < MaxOps
  /\ \/ \E duration \in Durations :
          /\ ExtractDomain(SiteUrl) \in Members(blockedSites)
          /\ StartOverride(ExtractDomain(SiteUrl), duration)
     \/ StartRemove(ExtractDomain(SiteUrl))
     \/ StartAdd(ExtractDomain(SiteUrl))
     \/ StartReset

TimerCallback == NoneInFlight /\ \E i \in 1..Len(timers) : TimerFire(i)

TimerHandlerStep ==
  \E p \in ProcIds :
    \/ SaveEffect(p)
    \/ GetRulesEffect(p)
    \/ RemoveRulesEffect(p)
    \/ AddRulesEffect(p)
    \/ RemoveKeysEffect(p)
    \/ ResumeClearGot(p)
    \/ ResumeCleared(p)
    \/ ResumeGot(p)
    \/ ResumeRemoved(p)
    \/ ResumeAdded(p)
    \/ ResumeSaved(p)
    \/ ResumeKeysRemoved(p)

NextOverrideTimers == TimerCommand \/ TimerCallback \/ TimerHandlerStep \/ BlockingTick

SpecOverrideTimers == InitNavigation /\ [][NextOverrideTimers]_vars

(***************************************************************************)
(* The EnhancedActivityManager, src/enhanced-activity-manager.js.  Its      *)
(* handlers are synchronous except setAutoManagement, which waits for the  *)
(* write of saveSettings.                                                  *)
(***************************************************************************)
\* the step of the clock in the manager's behaviours
ManagerTickMs == InactivityThresholdMs \div 2

\* pauseSession, lines 265-281
ManagerPauseSession(m) ==
  IF m.isSessionPaused THEN m
  ELSE [m EXCEPT !.isSessionPaused = TRUE, !.pausedAt = clock]

\* a resumeSession that forgets to clear pausedAt
ManagerResumeKeepsPausedAt(m) ==
  IF ~m.isSessionPaused THEN m
  ELSE [m EXCEPT !.totalPausedTime = @ + (IF Truthy(m.pausedAt) THEN clock - m.pausedAt ELSE 0),
                 !.isSessionPaused = FALSE]

\* resumeSession, lines 286-307
ManagerResumeSession(m) ==
  IF ~m.isSessionPaused THEN m
  ELSE [m EXCEPT !.totalPausedTime = @ + (IF Truthy(m.pausedAt) THEN clock - m.pausedAt ELSE 0),
                 !.isSessionPaused = FALSE,
                 !.pausedAt = Null]

\* updateActivity, lines 210-226
ManagerUpdateActivity(m, visible) ==
  LET seen == [m EXCEPT !.lastActivityTime = clock, !.isTabVisible = visible]
  IN  IF seen.isSessionPaused /\ seen.autoManagementEnabled
      THEN ManagerResumeSession(seen)
      ELSE seen

\* what a manager handler leaves alone besides the manager itself
ManagerHandled ==
  /\ managerOps' = managerOps + 1
  /\ UNCHANGED <<activitySettings, blockingVars, trackerVars, timeVars, navVars>>

\* the heartbeat's callback: checkActivityStatus, lines 166-205, with
\* handleActivityResumed (241-248) and handleInactivityTimeout (253-260)
CheckActivityStatus ==
  /\ mono > 0
  /\ LET timeSinceLastActivity == clock - manager.lastActivityTime
         wasActive == manager.isUserActive
         isActive  == timeSinceLastActivity < InactivityThresholdMs
         checked   == [manager EXCEPT !.isUserActive = isActive]
         resumed   == IF ~wasActive /\ isActive /\ checked.isSessionPaused
                         /\ checked.autoManagementEnabled
                      THEN ManagerResumeSession(checked)
                      ELSE checked
     IN  manager' = IF ~isActive /\ resumed.autoManagementEnabled /\ ~resumed.isSessionPaused
                    THEN ManagerPauseSession(resumed)
                    ELSE resumed
  /\ UNCHANGED activityState
  /\ ManagerHandled

\* a content script reports activity: updateActivity(activityData)
ManagerActivity(visible) ==
  /\ manager' = ManagerUpdateActivity(manager, visible)
  /\ UNCHANGED activityState
  /\ ManagerHandled

\* chrome.tabs.onActivated: handleTabActivated, lines 311-315
ManagerTabActivated ==
  /\ manager' = ManagerUpdateActivity(manager, TRUE)
  /\ UNCHANGED activityState
  /\ ManagerHandled

\* chrome.windows.onFocusChanged: handleWindowFocusChanged, lines 320-331
ManagerWindowFocusChanged(focused) ==
  /\ manager' = IF focused THEN ManagerUpdateActivity(manager, TRUE)
                 ELSE [manager EXCEPT !.isTabVisible = FALSE]
  /\ UNCHANGED activityState
  /\ ManagerHandled

\* saveCurrentState, lines 378-397: the snapshot of the fields as they are
\* when it is called
StateSnapshot(m) ==
  [present |-> TRUE, isUserActive |-> m.isUserActive, isTabVisible |-> m.isTabVisible,
   lastActivityTime |-> m.lastActivityTime, isSessionPaused |-> m.isSessionPaused,
   pausedAt |-> m.pausedAt, totalPausedTime |-> m.totalPausedTime, savedAt |-> clock]

\* chrome.power.onSuspend: handleSystemSuspend, lines 336-342; the write of
\* saveCurrentState succeeds or is rejected and logged
SystemSuspend ==
  /\ manager' = ManagerPauseSession(manager)
  /\ \E written \in BOOLEAN :
       activityState' = IF written THEN StateSnapshot(manager') ELSE activityState
  /\ ManagerHandled

\* chrome.power.onResume: handleSystemResume, lines 347-357
SystemResume ==
  /\ LET seen == ManagerUpdateActivity(manager, manager.isTabVisible)
     IN  manager' = IF seen.autoManagementEnabled /\ seen.isSessionPaused
                    THEN ManagerResumeSession(seen)
                    ELSE seen
  /\ UNCHANGED activityState
  /\ ManagerHandled

\* setAutoManagement, lines 455-465, up to the await of saveSettings
ManagerSetAutoManagement(enabled) ==
  /\ manager.saving = "none"
  /\ manager' = [manager EXCEPT !.autoManagementEnabled = enabled,
                                !.saving = IF enabled THEN "enable" ELSE "disable"]
  /\ UNCHANGED activityState
  /\ ManagerHandled

\* chrome.storage.local.set of saveSettings (lines 84-96) is answered, or is
\* rejected and logged; setAutoManagement goes on and resumes after a disable
ManagerSettingsSaved(written) ==
  /\ manager.saving # "none"
  /\ activitySettings' =
       IF written
       THEN [autoManagementEnabled |-> IF manager.saving = "enable" THEN "true" ELSE "false"]
       ELSE activitySettings
  /\ LET done == [manager EXCEPT !.saving = "none"]
     IN  manager' = IF manager.saving = "disable" /\ done.isSessionPaused
                    THEN ManagerResumeSession(done)
                    ELSE done
  /\ UNCHANGED <<managerOps, activityState, blockingVars, trackerVars, timeVars, navVars>>

ManagerTick ==
  /\ mono < MaxManagerTicks * ManagerTickMs
  /\ clock' = clock + ManagerTickMs
  /\ mono' = mono + ManagerTickMs
  /\ UNCHANGED <<managerVars, blockingVars, trackerVars, navVars>>

\* the worker has constructed its objects and no handler has run
InitManager == InitBlocking

ManagerEvent ==
  /\ managerOps < MaxManagerOps
  /\ \/ CheckActivityStatus
     \/ \E visible \in BOOLEAN : ManagerActivity(visible)
     \/ ManagerTabActivated
     \/ \E focused \in BOOLEAN : ManagerWindowFocusChanged(focused)
     \/ SystemSuspend
     \/ SystemResume
     \/ \E enabled \in BOOLEAN : ManagerSetAutoManagement(enabled)

ManagerStep == \E written \in BOOLEAN : ManagerSettingsSaved(written)

NextManager == ManagerEvent \/ ManagerStep \/ ManagerTick

SpecManager == InitManager /\ [][NextManager]_vars

(***************************************************************************)
(* The EnhancedActivityManager across a restart of the browser:            *)
(* saveCurrentState writes the snapshot, loadCurrentState reads it back.   *)
(***************************************************************************)
\* how long the browser stays closed
AwayTimes == {0, MaxStateAgeMs - 1, MaxStateAgeMs}

\* Date.now() at the model's instant 0 is a date of this century; the
\* model's clock leaves out all but StartClock of it.  Any amount of an hour
\* or more stands for what is left out.
ClockOrigin == MaxStateAgeMs

\* a state that counts as older than maxStateAge
IsRecentInclusive(stateAge) == stateAge <= MaxStateAgeMs

\* line 414: stateAge < maxStateAge
IsRecent(stateAge) == stateAge < MaxStateAgeMs

\* line 411: Date.now() - (state.savedAt || 0)
StateAge(state, now) ==
  IF state.savedAt = Null THEN now + ClockOrigin ELSE now - state.savedAt

\* resetState, lines 441-450
ResetState(m, now) ==
  [m EXCEPT !.isUserActive = TRUE, !.isTabVisible = TRUE, !.lastActivityTime = now,
            !.isSessionPaused = FALSE, !.pausedAt = Null, !.totalPausedTime = 0]

\* loadCurrentState after its read, lines 404-436; read is FALSE when the
\* read was rejected
LoadedState(m, state, now, read) ==
  IF ~read THEN ResetState(m, now)
  ELSE IF ~state.present THEN m
  ELSE IF IsRecent(StateAge(state, now))
       THEN [m EXCEPT !.isUserActive = state.isUserActive,
                      !.isTabVisible = TRUE,
                      !.lastActivityTime = state.lastActivityTime,
                      !.isSessionPaused = state.isSessionPaused,
                      !.pausedAt = state.pausedAt,
                      !.totalPausedTime = state.totalPausedTime]
       ELSE ResetState(m, now)

\* chrome.runtime.onSuspend: handleExtensionSuspend, lines 362-365; the write
\* of saveCurrentState succeeds or is rejected and logged
ExtensionSuspend ==
  /\ manager' = manager
  /\ \E written \in BOOLEAN :
       activityState' = IF written THEN StateSnapshot(manager) ELSE activityState
  /\ ManagerHandled

\* chrome.storage.local holds a snapshot of a paused session that an earlier
\* build wrote without savedAt, which line 411 provides for
SnapshotWithoutSavedAt ==
  /\ managerOps = 0
  /\ ~activityState.present
  /\ activityState' =
       [StateSnapshot([manager EXCEPT !.isSessionPaused = TRUE, !.pausedAt = clock,
                                      !.totalPausedTime = ManagerTickMs])
          EXCEPT !.savedAt = Null]
  /\ manager' = manager
  /\ ManagerHandled

\* the browser is closed and started again after some time: the worker
\* constructs a new manager (lines 8-35), initialize() loads the settings
\* (62-80) and sets up the listeners, and chrome.runtime.onStartup calls
\* handleExtensionStartup (370-373), which waits for the read of
\* loadCurrentState
ExtensionStartup(away) ==
  /\ clock' = clock + away
  /\ manager' = [NewManager EXCEPT
                   !.lastActivityTime = clock',
                   !.autoManagementEnabled = (activitySettings.autoManagementEnabled # "false"),
                   !.loading = TRUE]
  /\ managerOps' = managerOps + 1
  /\ UNCHANGED <<activitySettings, activityState, mono, blockingVars, trackerVars, navVars>>

\* the read of loadCurrentState is answered or rejected
StateLoaded(read) ==
  /\ manager.loading
  /\ manager' = [LoadedState(manager, activityState, clock, read) EXCEPT !.loading = FALSE]
  /\ UNCHANGED <<managerOps, activitySettings, activityState, blockingVars, trackerVars,
                 timeVars, navVars>>

StartupEvent ==
  /\ managerOps < MaxManagerOps
  /\ \/ CheckActivityStatus
     \/ \E visible \in BOOLEAN : ManagerActivity(visible)
     \/ SystemSuspend
     \/ ExtensionSuspend
     \/ SnapshotWithoutSavedAt
     \/ \E away \in AwayTimes : ExtensionStartup(away)

StartupStep == \E read \in BOOLEAN : StateLoaded(read)

NextManagerStartup == StartupEvent \/ StartupStep \/ ManagerTick

SpecManagerStartup == InitManager /\ [][NextManagerStartup]_vars

(***************************************************************************)
(* Pauses and resumes of both classes: the tracker handles activity        *)
(* reports, heartbeats and the auto-management switch, one handler at a    *)
(* time; the EnhancedActivityManager handles its events, is suspended and  *)
(* started again just under an hour later.                                 *)
(***************************************************************************)
PauseBudget == topCount + managerOps < MaxPauseEvents

TrackerPauseEvent ==
  /\ TQuiet
  /\ PauseBudget
  /\ (ActivityEvent \/ AutoEvent)

TrackerPauseStep ==
  \E p \in TProcIds :
    \/ StatsGet(p)
    \/ StatsSet(p)
    \/ EnterStartTracking(p)
    \/ AfterFlush(p)
    \/ SettingsGot(p)
    \/ SettingsSaved(p)
    \/ SettingsFailed(p)

ManagerPauseEvent ==
  /\ PauseBudget
  /\ \/ CheckActivityStatus
     \/ \E visible \in BOOLEAN : ManagerActivity(visible)
     \/ SystemSuspend
     \/ SystemResume
     \/ ExtensionSuspend
     \/ ExtensionStartup(MaxStateAgeMs - 1)

\* five minutes pass: the inactivity threshold of both classes
PauseTick ==
  /\ mono < MaxPauseTicks * InactivityThresholdMs
  /\ clock' = clock + InactivityThresholdMs
  /\ mono' = mono + InactivityThresholdMs
  /\ UNCHANGED <<managerVars, blockingVars, trackerVars, navVars>>

NextPauses ==
  \/ TrackerPauseEvent
  \/ TrackerPauseStep
  \/ ManagerPauseEvent
  \/ StartupStep
  \/ PauseTick

SpecPauses == InitTracker /\ [][NextPauses]_vars

(***************************************************************************)
(* The claims about the blocking engine.                                   *)
(***************************************************************************)
\* no handler in flight and no timer callback pending
Settled == NoneInFlight /\ timers = <<>>

\* the blocked domains that have no unexpired override
UnblockedByOverride(d) == d \in DOMAIN temporaryOverrides /\ clock < temporaryOverrides[d]

EligibleDomains == {d \in Members(blockedSites) : ~UnblockedByOverride(d)}

\* exactly two redirect rules to the blocked page for each domain of doms,
\* with the patterns *://d/* and *://*.d/*, and no other rule
ExactlyTwoRulesPerDomain(rules, doms) ==
  /\ {r.urlFilter : r \in rules} =
       UNION { { <<"*", ":", "/", "/">> \o d \o <<"/", "*">>,
                 <<"*", ":", "/", "/", "*", ".">> \o d \o <<"/", "*">> } : d \in doms }
  /\ Cardinality(rules) = 2 * Cardinality(doms)
  /\ \A r \in rules : r.redirect = BlockedPage

\* C1: once every addBlockedSite, removeBlockedSite and setTemporaryOverride
\* call issued while focus mode is on has finished, with its recompilations,
\* the installed rules are exactly two per blocked domain that has no
\* unexpired override.
C1_SettledRulesMatchState ==
  (Settled /\ focusMode) => ExactlyTwoRulesPerDomain(dynRules, EligibleDomains)

\* C2: no installed rule has the block-everything pattern *://*/*.
C2_NoBlockEverythingRule ==
  \A r \in dynRules : r.urlFilter # <<"*", ":", "/", "/", "*", "/", "*">>

\* C3: when a toggleFocusMode that turned focus mode on at a moment when no
\* override was unexpired has completed, the installed rules are exactly two
\* per blocked domain; when one that turned it off has completed, none is
\* installed.
C3_ToggleInstallsAndRemoves ==
  (lastDone.op = "toggle" /\ lastDone.ok) =>
    IF focusMode
    THEN (\A d \in DOMAIN temporaryOverrides : temporaryOverrides[d] <= focusStartTime)
           => ExactlyTwoRulesPerDomain(dynRules, Members(blockedSites))
    ELSE dynRules = {}

\* C3's case: a toggle to on has completed with two domains blocked
C3_Witness ==
  /\ lastDone.op = "toggle"
  /\ lastDone.ok
  /\ focusMode
  /\ Len(blockedSites) = 2
  /\ Cardinality(dynRules) = 4

\* C4: from the grant of an override for d until its expiry,
\* shouldBlockDomain(d) returns false.
C4_OverrideHoldsUntilExpiry ==
  \A raw \in RawDomains : clock < granted[CleanDomain(raw)] => ~ShouldBlockDomain(raw)

\* C5: when focus mode is on and no recompilation is in progress, no
\* installed rule targets a domain that has an unexpired override.
C5_NoRuleForOverriddenDomain ==
  (focusMode /\ NoneInFlight) =>
    \A d \in DOMAIN temporaryOverrides :
      clock < temporaryOverrides[d] =>
        \A r \in dynRules : r.urlFilter \notin {BareFilter(d), SubdomainFilter(d)}

\* C6: initialize removes every installed rule before it installs any, and
\* when it has completed the installed rules are exactly those of the
\* persisted focusMode and blockedSites: two per persisted domain if the
\* persisted focusMode is true, none otherwise.
C6_InitializeRebuildsRules ==
  /\ \A p \in ProcIds :
       (bprocs[p].op = "init" /\ bprocs[p].pc \in {"get", "got", "rem", "removed", "add"})
         => dynRules = {}
  /\ lastDone.op = "init" =>
       /\ focusMode = stored.focusMode
       /\ blockedSites = stored.blockedSites
       /\ ExactlyTwoRulesPerDomain(dynRules,
            IF stored.focusMode THEN Members(stored.blockedSites) ELSE {})

\* C6's case: initialize has completed after a restart that found rules
\* installed which the persisted state does not call for
C6_Witness ==
  /\ lastDone.op = "init"
  /\ leftover # {}
  /\ leftover # dynRules

(***************************************************************************)
(* The claims about the time tracker.                                      *)
(***************************************************************************)
\* the tracked session has been stopped: stopCurrentTracking was entered at
\* t1 and has reset the session
SessionStopped == sess.state = "closed"

\* C7: a session started at t0 and stopped at t1, with t1 - t0 above one
\* second and no pause, blur or focus event in between, has handed to
\* saveTimeEntry, over all periodic flushes and the final stop together,
\* floor((t1 - t0) / 1000) * 1000 ms and exactly one visit.
C7_SessionTimeIsElapsedTime ==
  (SessionStopped /\ sess.clean /\ sess.t1 - sess.t0 > SecondMs)
    => /\ sess.added = RoundedTime(sess.t1 - sess.t0)
       /\ sess.visits = 1

\* C8: a session from t0 to t1 that was paused (pauseSession until
\* resumeSession) for P in total has persisted at most (t1 - t0) - P, up to
\* one second.  Stated for the sessions whose only entry is the final stop's
\* and whose clock was not set back.
C8_PausedTimeIsExcluded ==
  (SessionStopped /\ ~sess.jumped /\ sess.calls <= 1)
    => sess.added <= (sess.t1 - sess.t0) - sess.paused + SecondMs

\* no saveTimeEntry call is between its read and its write of the stats
NoSaveInFlight == \A p \in TProcIds : tprocs[p].pc \notin {"get", "set"}

\* C9: when the saveTimeEntry calls have completed, also those that were in
\* flight together, the persisted entry holds every delta: each site's
\* timeSpent and visits and the totalTime are the sums of what was handed in.
C9_NoLostUpdate == NoSaveInFlight => stats = credited

\* C10: every time delta handed to saveTimeEntry is >= 0, whatever the
\* events and also after the clock has been set back.
C10_DeltasAreNonNegative ==
  /\ lastCall.delta >= 0
  /\ \A p \in TProcIds : tprocs[p].delta >= 0

\* a session that spans a backward clock jump is stopped and still has
\* something to save
C10_Witness == lastCall.jumped /\ lastCall.delta > 0 /\ sess.jumped /\ sess.state = "closing"

\* C11: when the interval's saveCurrentSession has completed and the clock
\* still reads what the call read, a second call finds less than a minute of
\* net time: it saves nothing and leaves the session as it is.
C11_SecondFlushIsNoOp ==
  [][\A p \in TProcIds :
       (AfterFlush(p) /\ tprocs[p].op = "interval" /\ tprocs[p].now = clock)
         => (~FlushSaves)']_vars

\* the flush of the 65th second has completed in the same instant: a minute
\* is saved and five seconds remain
C11_Witness ==
  /\ TQuiet
  /\ currentSession.isActive
  /\ currentSession.savedTime = MinuteMs
  /\ ~isSessionPaused
  /\ NetTimeSpent = 2 * TrackerTickMs - MinuteMs

\* the net session time up to the moment the user had been inactive for the
\* threshold, when the inactivity is reported as ms at the current clock
NetTimeUpToThreshold(ms) == NetTimeSpent - (ms - InactivityThresholdMs)

\* C12: the flush that pauseSession performs for an inactivity of ms above the
\* threshold persists the session's time only up to the last activity plus
\* the threshold (to the second), not up to the moment of detection.
C12_PauseFlushStopsAtThreshold ==
  [][\A ms \in InactiveFor :
       ( /\ ActivityDetected(FALSE, ms)
         /\ ms > InactivityThresholdMs
         /\ autoManagementEnabled /\ ~isSessionPaused
         /\ FlushSaves )
         => lastCall'.delta <= NetTimeUpToThreshold(ms) + SecondMs]_vars

\* C13: with auto-management on and the session not paused, the handling of
\* an inactivity signal above the threshold ends with isSessionPaused true,
\* whether the handler finishes at once or after the flush of pauseSession.
C13_InactivityPauses ==
  [][/\ \A ms \in InactiveFor :
          ( /\ ActivityDetected(FALSE, ms)
            /\ ms > InactivityThresholdMs
            /\ autoManagementEnabled /\ ~isSessionPaused
            /\ tprocs' = tprocs )
            => isSessionPaused'
     /\ \A p \in TProcIds :
          (AfterFlush(p) /\ tprocs[p].op = "activity") => isSessionPaused']_vars

\* C14: an activity signal with isActive = true that is handled while the
\* session is paused leaves it resumed: isSessionPaused false, pausedAt null,
\* and totalPausedTime grown once by the time since pausedAt.
C14_ActivityResumesOnce ==
  [][(ActivityDetected(TRUE, 0) /\ isSessionPaused)
       => /\ ~isSessionPaused'
          /\ pausedAt' = Null
          /\ totalPausedTime' = totalPausedTime + (clock - pausedAt)]_vars

\* no handler of the tracker, and no setAutoManagement of the manager, is
\* between two awaits
HandlersFinished == TQuiet /\ manager.saving = "none"

\* C15: once every handler has finished, the session is not paused while
\* auto-management is off, in the FocusTimeTracker and in the
\* EnhancedActivityManager.
C15_NoPauseWithAutoOff ==
  HandlersFinished =>
    /\ ~(isSessionPaused /\ ~autoManagementEnabled)
    /\ ~(manager.isSessionPaused /\ ~manager.autoManagementEnabled)

\* C16: isSessionPaused goes from false to true only where auto-management
\* is on and the time since the last activity is strictly above the
\* threshold: in the tracker the time reported by the signal being handled,
\* in the manager the time since its lastActivityTime.
C16_PauseOnlyWhenInactiveAndAuto ==
  [][/\ (~isSessionPaused /\ isSessionPaused')
          => /\ autoManagementEnabled
             /\ \/ \E ms \in InactiveFor :
                     ms > InactivityThresholdMs /\ ActivityDetected(FALSE, ms)
                \/ \E p \in TProcIds : AfterFlush(p) /\ tprocs[p].op = "activity"
     /\ (~manager.isSessionPaused /\ manager'.isSessionPaused)
          => /\ manager.autoManagementEnabled
             /\ clock - manager.lastActivityTime > InactivityThresholdMs]_vars

RECURSIVE SumTimeSpent(_)
\* the sum of timeSpent over the sites of a day's entry
SumTimeSpent(sites) ==
  IF DOMAIN sites = {} THEN 0
  ELSE LET k == CHOOSE x \in DOMAIN sites : TRUE
       IN  sites[k].timeSpent + SumTimeSpent([j \in (DOMAIN sites) \ {k} |-> sites[j]])

\* C17: in the day's entry that saveTimeEntry has written, and in every entry
\* a call is about to write, totalTime is the sum of timeSpent over the sites,
\* however the calls overlap.
C17_TotalIsSumOfSites ==
  /\ stats.totalTime = SumTimeSpent(stats.sites)
  /\ \A p \in TProcIds :
       tprocs[p].pc = "set" =>
         LET written == AddEntry(tprocs[p].read, tprocs[p].domain, tprocs[p].delta,
                                 tprocs[p].visits)
         IN  written.totalTime = SumTimeSpent(written.sites)

\* two sites have time in the entry and an overlapping call's update was lost
C17_Witness ==
  /\ NoSaveInFlight
  /\ Cardinality({k \in DOMAIN stats.sites : stats.sites[k].timeSpent > 0}) >= 2
  /\ stats # credited

(***************************************************************************)
(* The claims about rejected browser calls and invalid input.              *)
(***************************************************************************)
\* the install of updateBlockingRules was rejected in operation n, an
\* addBlockedSite(d)
InstallRejected(n, d) ==
  \E f \in faults : f.n = n /\ f.op = "add" /\ f.dom = d /\ f.call = "add"

\* the write of saveState was rejected in operation n
WriteRejected(n) == \E f \in faults : f.n = n /\ f.call = "save"

\* both rules of d are installed
HasRulesFor(d) ==
  /\ \E r \in dynRules : r.urlFilter = SubdomainFilter(d)
  /\ \E r \in dynRules : r.urlFilter = BareFilter(d)

\* an operation has returned success after it recompiled the rules with
\* focus mode on
Recompiled ==
  /\ NoneInFlight
  /\ lastDone.ok
  /\ lastDone.op \in {"toggle", "add", "remove"}
  /\ focusMode

\* C18: an addBlockedSite(d) whose rule install was rejected returns
\* success: false with d in blockedSites, and in the stored list when the
\* write of saveState went through; the next operation that recompiles the
\* rules with success while d is in the list installs the rules of d.
C18_FailedInstallKeepsDomain ==
  /\ (lastDone.op = "add" /\ InstallRejected(opCount, lastDone.dom))
       => /\ ~lastDone.ok
          /\ lastDone.dom \in Members(blockedSites)
          /\ ~WriteRejected(opCount) => lastDone.dom \in Members(stored.blockedSites)
  /\ \A f \in faults :
       ( /\ f.n < opCount
         /\ InstallRejected(f.n, f.dom)
         /\ Recompiled
         /\ f.dom \in Members(blockedSites) )
         => HasRulesFor(f.dom)

\* an addBlockedSite(d) failed at the install and left d in memory and in
\* storage, and a later operation has installed the rules of d
C18_Witness ==
  \E f \in faults :
    /\ f.n < opCount
    /\ InstallRejected(f.n, f.dom)
    /\ Recompiled
    /\ f.dom \in Members(blockedSites)
    /\ f.dom \in Members(stored.blockedSites)
    /\ HasRulesFor(f.dom)

\* C19: toggleFocusMode, addBlockedSite, removeBlockedSite and
\* resetBlockingState return success: false when a write of saveState, a
\* rule removal of clearBlockingRules or a rule install was rejected while
\* they ran.
C19_FailureIsReported ==
  ( /\ lastDone.op \in {"toggle", "add", "remove", "reset"}
    /\ \E f \in faults : f.n = opCount /\ f.call \in {"save", "crem", "add"} )
    => ~lastDone.ok

\* C20: addBlockedSite with a raw domain that is empty or has no hostname
\* returns success: false and leaves the blocked list, the stored state and
\* the installed rules as they were.
C20_InvalidDomainIsRejected ==
  [][\A raw \in InvalidRaws \cup {<<>>} :
       StartAdd(raw) =>
         /\ lastDone'.op = "add"
         /\ ~lastDone'.ok
         /\ UNCHANGED <<blockedSites, stored, dynRules>>]_vars

C21_LaterFlushWitness ==
  \E p \in TProcIds :
    /\ tprocs[p].pc = "msg"
    /\ tprocs[p].stage = "flush"
    /\ sess.failed > 0
    /\ sess.written >= MinuteMs

C22_BlockedPageLeavesWhenFocusOff ==
  [][\A tab \in Tabs :
       (PageGetsFocusStatus(tab) /\ ~focusMode)
         => /\ pages'[tab].pc = "clearing"
            /\ AutoRedirectTarget(pages[tab].url) = redirected[tab]]_vars

\* C23: after a navigation in a tab to a URL that an installed rule
\* redirected to the blocked page, the next GET_CACHED_URL from that tab is
\* answered with that URL.
C23_CachedUrlIsTheBlockedUrl ==
  [][\A tab \in Tabs :
       (PageGetsCachedUrl(tab) /\ pages[tab].pc = "loading")
         => pages'[tab].url = redirected[tab]]_vars

(***************************************************************************)
(* The claim about the EnhancedActivityManager's restart.                  *)
(***************************************************************************)
\* C24: when loadCurrentState has read a snapshot, it restores
\* isSessionPaused, pausedAt and totalPausedTime from it if the snapshot has
\* a savedAt less than one hour back; if the snapshot is one hour old or
\* older, or has no savedAt, isSessionPaused is false, pausedAt is null and
\* totalPausedTime is 0 afterwards.
C24_StaleSnapshotIsDiscarded ==
  [][(StateLoaded(TRUE) /\ activityState.present)
       => IF activityState.savedAt # Null /\ clock - activityState.savedAt < MaxStateAgeMs
          THEN /\ manager'.isSessionPaused = activityState.isSessionPaused
               /\ manager'.pausedAt = activityState.pausedAt
               /\ manager'.totalPausedTime = activityState.totalPausedTime
          ELSE /\ ~manager'.isSessionPaused
               /\ manager'.pausedAt = Null
               /\ manager'.totalPausedTime = 0]_vars

\* the snapshot of a paused session, written when the system was suspended,
\* is exactly one hour old when the browser starts again, and the manager
\* that has loaded it is not paused
C24_Witness ==
  /\ mono = 0
  /\ clock = StartClock + MaxStateAgeMs
  /\ activityState.present
  /\ activityState.isSessionPaused
  /\ activityState.savedAt = StartClock
  /\ ~manager.loading
  /\ ~manager.isSessionPaused
  /\ manager.pausedAt = Null

(***************************************************************************)
(* The claims about the tracker's tab events.                              *)
(***************************************************************************)
\* C25: when saveTimeEntry returns to a periodic flush after a tab switch
\* has stopped the flushed session and started a new one, for which nothing
\* has been saved yet, the flush leaves the new session as it is: startTime
\* the time of its start and savedTime 0.
C25_FlushLeavesNewSessionAlone ==
  [][\A p \in TProcIds :
       ( /\ AfterFlush(p)
         /\ tprocs[p].op = "interval"
         /\ tprocs[p].domain # NoDomain
         /\ sess.state = "open"
         /\ sess.calls = 0 )
         => /\ currentSession' = currentSession
            /\ currentSession'.startTime = sess.t0
            /\ currentSession'.savedTime = 0]_vars

(***************************************************************************)
(* C26: after any sequence of tab activations, overlapping ones included,  *)
(* once every handler has finished the session tracks the most recently    *)
(* activated tab (its tabId and the domain of its URL) if that tab's URL   *)
(* is trackable, and no session is active otherwise.                       *)
(***************************************************************************)
C26_SessionFollowsLastActivation ==
  TQuiet =>
    IF IsTrackableUrl(tabUrl[activeTab])
    THEN /\ currentSession.isActive
         /\ currentSession.tabId = activeTab
         /\ currentSession.domain = ExtractDomain(tabUrl[activeTab])
    ELSE ~currentSession.isActive

(***************************************************************************)
(* C27: when the active tab finishes loading a trackable URL whose domain  *)
(* differs from the domain being tracked (also when nothing is tracked     *)
(* because the tab showed a non-trackable page), then once the handler has *)
(* completed the session is active on the domain of the new URL.           *)
(***************************************************************************)
C27_LoadedDomainIsTracked ==
  [][/\ \A tab \in Tabs, url \in LoadedUrls :
          ( /\ TabUpdated(tab, url)
            /\ tab = activeTab
            /\ IsTrackableUrl(url)
            /\ currentSession.domain # ExtractDomain(url)
            /\ tprocs' = tprocs )
            => /\ currentSession'.isActive
               /\ currentSession'.domain = ExtractDomain(url)
     /\ \A p \in TProcIds :
          ( /\ AfterStop(p)
            /\ tprocs[p].op = "updated"
            /\ IsTrackableUrl(tprocs[p].url) )
            => /\ currentSession'.isActive
               /\ currentSession'.domain = ExtractDomain(tprocs[p].url)]_vars

(***************************************************************************)
(* C28: once the handler of the removal of tab T has completed, from every *)
(* prior state (a session on T that a window blur has marked inactive      *)
(* included), the current session does not refer to T and the URL cache    *)
(* has no entry for T.                                                     *)
(***************************************************************************)
C28_RemovedTabIsForgotten ==
  [][/\ \A tab \in Tabs :
          (TabRemoved(tab) /\ tprocs' = tprocs)
            => /\ currentSession'.tabId # tab
               /\ tab \notin DOMAIN urlCache'
     /\ \A p \in TProcIds :
          (AfterStop(p) /\ tprocs[p].op = "removed")
            => /\ currentSession'.tabId # tprocs[p].tab
               /\ tprocs[p].tab \notin DOMAIN urlCache']_vars

(***************************************************************************)
(* C29: startTracking called while a session is active is a no-op: the     *)
(* session's tabId, domain, startTime and savedTime are unchanged and the  *)
(* call hands nothing to saveTimeEntry.                                    *)
(***************************************************************************)
C29_StartWhileActiveIsNoOp ==
  [][\A p \in TProcIds :
       (EnterStartTracking(p) /\ currentSession.isActive)
         => /\ currentSession' = currentSession
            /\ credited' = credited
            /\ tprocs'[p].pc # "get"]_vars

(***************************************************************************)
(* C30: while focus mode is on and a domain x stays in blockedSites with   *)
(* no override, a recompilation of the rules for a mutation of another     *)
(* domain never passes through, and never ends in (a rejected install      *)
(* included), a state in which the installed rules lack the two rules of   *)
(* x.                                                                      *)
(***************************************************************************)
C30_RulesStayDuringRecompile ==
  \A x \in Members(blockedSites) \ {OtherDomain} :
    (focusMode /\ ~UnblockedByOverride(x)) => HasRulesFor(x)

(***************************************************************************)
(* C31: once a domain d has been removed from blockedSites (or the         *)
(* blocking state has been reset) before the override of d expires, the    *)
(* pending timer of that override is cancelled: its callback starts no     *)
(* recompilation and deletes no override entry.  In SpecOverrideTimers an  *)
(* override is granted only for a blocked domain, so a callback for a      *)
(* domain that is not blocked belongs to a timer set before the removal.   *)
(***************************************************************************)
C31_RemovalCancelsTimer ==
  [][\A i \in 1..Len(timers) :
       (TimerFire(i) /\ timers[i].dom \notin Members(blockedSites))
         => /\ bprocs' = bprocs
            /\ temporaryOverrides' = temporaryOverrides]_vars

(***************************************************************************)
(* C32: lastActivityTime is set to now only by signals of genuine          *)
(* engagement: the handling of a heartbeat, and of an activity report      *)
(* whose payload has isActive = false, leaves lastActivityTime unchanged.  *)
(***************************************************************************)
C32_OnlyEngagementSetsActivityTime ==
  [][/\ \A active \in BOOLEAN :
          Heartbeat(active) => lastActivityTime' = lastActivityTime
     /\ \A ms \in InactiveFor :
          ActivityDetected(FALSE, ms) => lastActivityTime' = lastActivityTime]_vars

(***************************************************************************)
(* C33: in every reachable state of the tracker, the states between the    *)
(* awaits of overlapping handlers included, currentSession.isActive        *)
(* implies that currentSession.startTime is not null.                      *)
(***************************************************************************)
C33_ActiveSessionHasStartTime ==
  currentSession.isActive => currentSession.startTime # Null

\* C33's case: the session is active while the periodic flush and the
\* pauseTracking of a window blur both wait for their saveTimeEntry
C33_Witness ==
  /\ currentSession.isActive
  /\ currentSession.startTime # Null
  /\ \E p, q \in TProcIds : tprocs[p].stage = "flush" /\ tprocs[q].stage = "blur"

(***************************************************************************)
(* C34: in every reachable state, in FocusTimeTracker and in               *)
(* EnhancedActivityManager (right after a snapshot is restored included),  *)
(* isSessionPaused implies that pausedAt is not null, and after every      *)
(* resume pausedAt is null: a session that is not paused has no pausedAt.  *)
(***************************************************************************)
C34_PausedHasPausedAt ==
  /\ isSessionPaused <=> pausedAt # Null
  /\ manager.isSessionPaused <=> manager.pausedAt # Null

\* C34's case: the tracker has paused its session, and the manager has been
\* started again and has restored the snapshot of a paused session
C34_Witness ==
  /\ isSessionPaused
  /\ pausedAt # Null
  /\ manager.isSessionPaused
  /\ manager.pausedAt # Null
  /\ ~manager.loading
  /\ clock - manager.pausedAt >= MaxStateAgeMs - 1

(***************************************************************************)
(* C35: when no handler is in progress an active session has a domain,     *)
(* and it is the domain of the tab that is active in the focused window:   *)
(* resumeTracking after a window-focus change, called with that tab,       *)
(* never activates a session that has no domain or that belongs to         *)
(* another tab.                                                            *)
(***************************************************************************)
C35_ResumedSessionIsOnActiveTab ==
  [][\A p \in TProcIds :
       ( /\ FocusAnswered(p)
         /\ ~currentSession.isActive
         /\ currentSession'.isActive
         /\ TFree' = TProcIds )
         => /\ currentSession'.domain # NoDomain
            /\ currentSession'.tabId = tprocs[p].tab
            /\ currentSession'.domain = ExtractDomain(tabUrl[tprocs[p].tab])]_vars

(***************************************************************************)
(* C36: in every state in which no recompilation is in progress and no     *)
(* rule call has failed, for every hostname h (a subdomain of a blocked    *)
(* domain included) shouldBlockDomain(h) is true exactly when the          *)
(* installed rules redirect a main-frame navigation to h.                  *)
(***************************************************************************)
C36_QueryAgreesWithRules ==
  (Settled /\ faults = {} /\ leftover = {})
    => \A h \in Hostnames : ShouldBlockDomain(h) <=> Redirects(UrlOf(h))

(***************************************************************************)
(* C37: in every state in which no operation is in progress, the focusMode *)
(* field of the answer to GET_CURRENT_STATE equals                         *)
(* BlockingManager.focusMode: it equals focusStats.focusMode of the same   *)
(* answer and the focusMode answered to GET_FOCUS_STATUS.                  *)
(***************************************************************************)
\* getFocusStats, lines 937-948: the fields the claims compare
GetFocusStats ==
  [focusMode |-> focusMode, focusStartTime |-> focusStartTime,
   blockedAttempts |-> blockedAttempts, blockedSites |-> blockedSites]

\* getCurrentState, lines 1799-1806, answered with nothing else in flight:
\* focusMode is read from the stored settings (getSettings, 174-177)
GetCurrentState ==
  [currentSession |-> currentSession, tracking |-> currentSession.isActive,
   focusMode |-> settings.focusMode]

\* the data of the answer to GET_CURRENT_STATE, lines 1222-1229
CurrentStateAnswer ==
  [focusMode |-> GetCurrentState.focusMode, tracking |-> GetCurrentState.tracking,
   focusStats |-> GetFocusStats]

\* the data of the answer to GET_FOCUS_STATUS, line 1653
FocusStatusAnswer == [focusMode |-> focusMode]

C37_CurrentStateFocusMode ==
  (NoneInFlight /\ TQuiet)
    => /\ CurrentStateAnswer.focusMode = focusMode
       /\ CurrentStateAnswer.focusMode = CurrentStateAnswer.focusStats.focusMode
       /\ CurrentStateAnswer.focusMode = FocusStatusAnswer.focusMode

(***************************************************************************)
(* C38: an ENHANCED_ACTIVITY_DETECTED inactivity report sent by the        *)
(* content script of a tab other than currentSession.tabId never pauses    *)
(* the tracked session: a step that handles the report of tab sender and   *)
(* changes isSessionPaused from false to true has sender =                 *)
(* currentSession.tabId.                                                   *)
(***************************************************************************)
C38_OnlyTrackedTabPauses ==
  [][\A sender \in Tabs, ms \in InactiveFor :
       (EnhancedActivityMessage(sender, FALSE, ms) /\ ~isSessionPaused /\ isSessionPaused')
         => sender = currentSession.tabId]_vars

(***************************************************************************)
(* C39: in every state in which no BlockingManager operation or            *)
(* initialization is in progress and no storage call has failed, the       *)
(* persisted keys focusMode, blockedSites, focusStartTime and              *)
(* blockedAttempts equal the in-memory state, also when a command was      *)
(* handled while initialize was waiting for its storage read.              *)
(***************************************************************************)
C39_StorageEqualsMemory == (NoneInFlight /\ faults = {}) => stored = Snapshot

(***************************************************************************)
(* C40: pause accounting is per session: whenever a session is stopped     *)
(* and a new one is started, the new session begins with isSessionPaused   *)
(* false and totalPausedTime 0, so that an earlier session's pause never   *)
(* suppresses or reduces the periodic flushes of the new session.          *)
(***************************************************************************)
\* the step of handler p in which startTracking assigns the new session,
\* lines 1711-1717
SessionStarts(p) ==
  \/ /\ EnterStartTracking(p)
     /\ IsTrackableUrl(tabUrl[tprocs[p].tab])
     /\ ~(currentSession.isActive /\ StopSaves)
  \/ AfterRestop(p)
  \/ AfterStop(p) /\ tprocs[p].op = "updated" /\ IsTrackableUrl(tprocs[p].url)

C40_NewSessionStartsUnpaused ==
  [][\A p \in TProcIds :
       SessionStarts(p) => (~isSessionPaused' /\ totalPausedTime' = 0)]_vars

=============================================================================
